---- MODULE Spec2Model ----
(***************************************************************************)
(* A model of paste.httpheaders: the registry of HTTPHeader instances, the *)
(* three cardinality classes and the operations that read, update and      *)
(* delete a header in a WSGI environ dictionary or a response_headers      *)
(* list.                                                                   *)
(*                                                                         *)
(* Python strings are sequences of one-character strings, so that lower(), *)
(* upper(), strip(), replace() and join() are computed character by        *)
(* character.  Python values that reach format() carry a type tag.  The    *)
(* assert statements of the source are modelled as raising AssertionError  *)
(* (the interpreter is not run with -O).                                   *)
(***************************************************************************)
EXTENDS Integers, Sequences, FiniteSets, TLC

VARIABLES
    registered,  \* the entries of _headers set since the module was loaded
    nextId,      \* identity given to the next instance object.__new__ creates
    collection,  \* the caller's container: a response_headers list or an environ
    last,        \* the most recent call: operation, receiver, arguments, container before
    ret,         \* what the most recent call returned or raised
    regLog,      \* the registrations made since the module was loaded
    clock,       \* what time.time() returns, in whole seconds since 1970
    parked       \* the container of the request that is not being served now

vars == <<registered, nextId, collection, last, ret, regLog, clock, parked>>

----------------------------------------------------------------------------
(* Bounds of the model.                                                    *)

\* longest response_headers list the caller builds
MaxLen == 3
\* most literal values passed in one call
MaxArgs == 2
\* most registrations made after the module was loaded
MaxRegs == 3
\* most seconds that pass after the module was loaded
MaxTicks == 2
\* longest filename passed to ContentDisposition
MaxName == 3
\* most entries of a list that is normalized
MaxEntries == 4

----------------------------------------------------------------------------
(* Python strings.                                                         *)

LowerAlpha ==
    <<"a","b","c","d","e","f","g","h","i","j","k","l","m",
      "n","o","p","q","r","s","t","u","v","w","x","y","z">>

UpperAlpha ==
    <<"A","B","C","D","E","F","G","H","I","J","K","L","M",
      "N","O","P","Q","R","S","T","U","V","W","X","Y","Z">>

LowerChar(c) ==
    IF \E i \in 1..Len(UpperAlpha) : UpperAlpha[i] = c
    THEN LowerAlpha[CHOOSE i \in 1..Len(UpperAlpha) : UpperAlpha[i] = c]
    ELSE c

UpperChar(c) ==
    IF \E i \in 1..Len(LowerAlpha) : LowerAlpha[i] = c
    THEN UpperAlpha[CHOOSE i \in 1..Len(LowerAlpha) : LowerAlpha[i] = c]
    ELSE c

\* str.lower()
lower(s) == [i \in 1..Len(s) |-> LowerChar(s[i])]

\* str.upper()
upper(s) == [i \in 1..Len(s) |-> UpperChar(s[i])]

\* str.replace(a, b) for one-character a and b
replace(s, a, b) == [i \in 1..Len(s) |-> IF s[i] = a THEN b ELSE s[i]]

IsSpace(c) == c \in {" ", "\t"}

RECURSIVE lstrip(_)
lstrip(s) == IF Len(s) > 0 /\ IsSpace(s[1]) THEN lstrip(Tail(s)) ELSE s

RECURSIVE rstrip(_)
rstrip(s) ==
    IF Len(s) > 0 /\ IsSpace(s[Len(s)]) THEN rstrip(SubSeq(s, 1, Len(s) - 1)) ELSE s

\* str.strip()
strip(s) == rstrip(lstrip(s))

\* sep.join(parts)
RECURSIVE join(_, _)
join(sep, parts) ==
    IF Len(parts) = 0 THEN <<>>
    ELSE IF Len(parts) = 1 THEN parts[1]
    ELSE parts[1] \o sep \o join(sep, Tail(parts))

Digits == <<"0","1","2","3","4","5","6","7","8","9">>

\* the characters of field-names and field-values, in the order of their codes
Ascii ==
    <<"\t", " ", "\"", "-", "/">> \o Digits \o <<":", ";", "=">> \o UpperAlpha
        \o <<"\\", "_">> \o LowerAlpha

\* the decimal digits of a natural number
RECURSIVE digits(_)
digits(n) ==
    IF n < 10 THEN <<Digits[n + 1]>>
    ELSE digits(n \div 10) \o <<Digits[(n % 10) + 1]>>

\* '%d' % n
format_d(n) == IF n < 0 THEN <<"-">> \o digits(-n) ELSE digits(n)

\* '%02d' % n and '%04d' % n, for n of no more digits
pad2(n) == <<Digits[(n \div 10) + 1], Digits[(n % 10) + 1]>>
pad4(n) == pad2(n \div 100) \o pad2(n % 100)

\* s.split(sep)[-1] for a one-character sep
after_last(s, sep) ==
    IF \E i \in 1..Len(s) : s[i] = sep
    THEN LET i == CHOOSE i \in 1..Len(s) :
                    s[i] = sep /\ \A j \in (i + 1)..Len(s) : s[j] # sep
         IN  SubSeq(s, i + 1, Len(s))
    ELSE s

\* ord(c), up to an order-preserving renumbering
ord(c) == CHOOSE i \in 1..Len(Ascii) : Ascii[i] = c

\* a < b for two str
RECURSIVE str_lt(_, _)
str_lt(a, b) ==
    IF Len(b) = 0 THEN FALSE
    ELSE IF Len(a) = 0 THEN TRUE
    ELSE IF a[1] # b[1] THEN ord(a[1]) < ord(b[1])
    ELSE str_lt(Tail(a), Tail(b))

\* str.capitalize()
capitalize(s) ==
    [i \in 1..Len(s) |-> IF i = 1 THEN UpperChar(s[i]) ELSE LowerChar(s[i])]

\* str.split(sep) for a one-character sep
RECURSIVE split(_, _)
split(s, sep) ==
    IF \E i \in 1..Len(s) : s[i] = sep
    THEN LET i == CHOOSE i \in 1..Len(s) : s[i] = sep /\ \A j \in 1..(i - 1) : s[j] # sep
         IN  <<SubSeq(s, 1, i - 1)>> \o split(SubSeq(s, i + 1, Len(s)), sep)
    ELSE <<s>>

\* cmp(a, b) for two str
cmp(a, b) == IF a = b THEN 0 ELSE IF str_lt(a, b) THEN -1 ELSE 1

----------------------------------------------------------------------------
(* Python values and the outcome of a call.                                *)

None == [t |-> "None"]
Str(s) == [t |-> "str", s |-> s]
\* a response_headers list: a sequence of <<field-name, field-value>>
List(l) == [t |-> "list", l |-> l]
\* a list of strings, as MultiEntryHeader.format returns
StrList(strs) == [t |-> "list", strs |-> strs]
Dict(d) == [t |-> "dict", d |-> d]
Instance(id) == [t |-> "HTTPHeader", id |-> id]

\* str(v)
str(v) == IF v.t = "None" THEN <<"N","o","n","e">> ELSE v.s

NoExc == "none"
Return(v) == [exc |-> NoExc, value |-> v]
Raise(e) == [exc |-> e, value |-> None]

\* dict.get(key): None when the key is missing
get(d, key) == IF key \in DOMAIN d THEN Str(d[key]) ELSE None

\* an int
IntVal(n) == [t |-> "int", n |-> n]
Bool(b) == [t |-> "bool", b |-> b]
True == Bool(TRUE)
False == Bool(FALSE)

\* truth value of a str, an int, a bool or None
truthy(v) ==
    CASE v.t = "str" -> Len(v.s) > 0
      [] v.t = "int" -> v.n # 0
      [] v.t = "bool" -> v.b
      [] OTHER -> FALSE

\* the value of an expression, evaluated once and then named
the(S) == CHOOSE x \in S : TRUE

\* no keyword arguments
NoKw == <<>>

\* a keyword argument, or the default of its parameter
kw(kwargs, key, default) == IF key \in DOMAIN kwargs THEN kwargs[key] ELSE default

----------------------------------------------------------------------------
(* The classes and the declarations made while the module is loaded.       *)

Specialized ==
<<
    [cname |-> "CacheControl", bname |-> "MultiValueHeader", category |-> "general", version |-> "1.1",
        name |-> <<"C","a","c","h","e","-","C","o","n","t","r","o","l">>],
    [cname |-> "ContentType", bname |-> "SingleValueCGIHeader", category |-> "entity", version |-> "1.0",
        name |-> <<"C","o","n","t","e","n","t","-","T","y","p","e">>],
    [cname |-> "ContentLength", bname |-> "SingleValueCGIHeader", category |-> "entity", version |-> "1.0",
        name |-> <<"C","o","n","t","e","n","t","-","L","e","n","g","t","h">>],
    [cname |-> "ContentDisposition", bname |-> "SingleValueHeader", category |-> "entity", version |-> "1.1",
        name |-> <<"C","o","n","t","e","n","t","-","D","i","s","p","o","s","i","t","i","o","n">>],
    [cname |-> "IfModifiedSince", bname |-> "DateHeader", category |-> "request", version |-> "1.0",
        name |-> <<"I","f","-","M","o","d","i","f","i","e","d","-","S","i","n","c","e">>]
>>

Generated ==
<<
    [cname |-> "Accept", bname |-> "MultiValueHeader", category |-> "request", version |-> "1.1",
        name |-> <<"A","c","c","e","p","t">>],
    [cname |-> "AcceptCharset", bname |-> "MultiValueHeader", category |-> "request", version |-> "1.1",
        name |-> <<"A","c","c","e","p","t","-","C","h","a","r","s","e","t">>],
    [cname |-> "AcceptEncoding", bname |-> "MultiValueHeader", category |-> "request", version |-> "1.1",
        name |-> <<"A","c","c","e","p","t","-","E","n","c","o","d","i","n","g">>],
    [cname |-> "AcceptLanguage", bname |-> "MultiValueHeader", category |-> "request", version |-> "1.1",
        name |-> <<"A","c","c","e","p","t","-","L","a","n","g","u","a","g","e">>],
    [cname |-> "AcceptRanges", bname |-> "MultiValueHeader", category |-> "response", version |-> "1.1",
        name |-> <<"A","c","c","e","p","t","-","R","a","n","g","e","s">>],
    [cname |-> "Age", bname |-> "SingleValueHeader", category |-> "response", version |-> "1.1",
        name |-> <<"A","g","e">>],
    [cname |-> "Allow", bname |-> "MultiValueHeader", category |-> "entity", version |-> "1.0",
        name |-> <<"A","l","l","o","w">>],
    [cname |-> "Authorization", bname |-> "SingleValueHeader", category |-> "request", version |-> "1.0",
        name |-> <<"A","u","t","h","o","r","i","z","a","t","i","o","n">>],
    [cname |-> "Cookie", bname |-> "MultiValueHeader", category |-> "request", version |-> "1.0",
        name |-> <<"C","o","o","k","i","e">>],
    [cname |-> "Connection", bname |-> "MultiValueHeader", category |-> "general", version |-> "1.1",
        name |-> <<"C","o","n","n","e","c","t","i","o","n">>],
    [cname |-> "ContentEncoding", bname |-> "MultiValueHeader", category |-> "entity", version |-> "1.0",
        name |-> <<"C","o","n","t","e","n","t","-","E","n","c","o","d","i","n","g">>],
    [cname |-> "ContentLanguage", bname |-> "MultiValueHeader", category |-> "entity", version |-> "1.1",
        name |-> <<"C","o","n","t","e","n","t","-","L","a","n","g","u","a","g","e">>],
    [cname |-> "ContentLocation", bname |-> "SingleValueHeader", category |-> "entity", version |-> "1.1",
        name |-> <<"C","o","n","t","e","n","t","-","L","o","c","a","t","i","o","n">>],
    [cname |-> "ContentMD5", bname |-> "SingleValueHeader", category |-> "entity", version |-> "1.1",
        name |-> <<"C","o","n","t","e","n","t","-","M","D","5">>],
    [cname |-> "ContentRange", bname |-> "SingleValueHeader", category |-> "entity", version |-> "1.1",
        name |-> <<"C","o","n","t","e","n","t","-","R","a","n","g","e">>],
    [cname |-> "Date", bname |-> "DateHeader", category |-> "general", version |-> "1.0",
        name |-> <<"D","a","t","e">>],
    [cname |-> "ETag", bname |-> "SingleValueHeader", category |-> "response", version |-> "1.1",
        name |-> <<"E","T","a","g">>],
    [cname |-> "Expect", bname |-> "MultiValueHeader", category |-> "request", version |-> "1.1",
        name |-> <<"E","x","p","e","c","t">>],
    [cname |-> "Expires", bname |-> "DateHeader", category |-> "entity", version |-> "1.0",
        name |-> <<"E","x","p","i","r","e","s">>],
    [cname |-> "From", bname |-> "SingleValueHeader", category |-> "request", version |-> "1.0",
        name |-> <<"F","r","o","m">>],
    [cname |-> "Host", bname |-> "SingleValueHeader", category |-> "request", version |-> "1.1",
        name |-> <<"H","o","s","t">>],
    [cname |-> "IfMatch", bname |-> "MultiValueHeader", category |-> "request", version |-> "1.1",
        name |-> <<"I","f","-","M","a","t","c","h">>],
    [cname |-> "IfNoneMatch", bname |-> "MultiValueHeader", category |-> "request", version |-> "1.1",
        name |-> <<"I","f","-","N","o","n","e","-","M","a","t","c","h">>],
    [cname |-> "IfRange", bname |-> "SingleValueHeader", category |-> "request", version |-> "1.1",
        name |-> <<"I","f","-","R","a","n","g","e">>],
    [cname |-> "IfUnmodifiedSince", bname |-> "DateHeader", category |-> "request", version |-> "1.1",
        name |-> <<"I","f","-","U","n","m","o","d","i","f","i","e","d","-","S","i","n","c","e">>],
    [cname |-> "LastModified", bname |-> "DateHeader", category |-> "entity", version |-> "1.0",
        name |-> <<"L","a","s","t","-","M","o","d","i","f","i","e","d">>],
    [cname |-> "Location", bname |-> "SingleValueHeader", category |-> "response", version |-> "1.0",
        name |-> <<"L","o","c","a","t","i","o","n">>],
    [cname |-> "MaxForwards", bname |-> "SingleValueHeader", category |-> "request", version |-> "1.1",
        name |-> <<"M","a","x","-","F","o","r","w","a","r","d","s">>],
    [cname |-> "Pragma", bname |-> "MultiValueHeader", category |-> "general", version |-> "1.0",
        name |-> <<"P","r","a","g","m","a">>],
    [cname |-> "ProxyAuthenticate", bname |-> "MultiValueHeader", category |-> "response", version |-> "1.1",
        name |-> <<"P","r","o","x","y","-","A","u","t","h","e","n","t","i","c","a","t","e">>],
    [cname |-> "ProxyAuthorization", bname |-> "SingleValueHeader", category |-> "request", version |-> "1.1",
        name |-> <<"P","r","o","x","y","-","A","u","t","h","o","r","i","z","a","t","i","o","n">>],
    [cname |-> "Range", bname |-> "MultiValueHeader", category |-> "request", version |-> "1.1",
        name |-> <<"R","a","n","g","e">>],
    [cname |-> "Referer", bname |-> "SingleValueHeader", category |-> "request", version |-> "1.0",
        name |-> <<"R","e","f","e","r","e","r">>],
    [cname |-> "RetryAfter", bname |-> "SingleValueHeader", category |-> "response", version |-> "1.1",
        name |-> <<"R","e","t","r","y","-","A","f","t","e","r">>],
    [cname |-> "Server", bname |-> "SingleValueHeader", category |-> "response", version |-> "1.0",
        name |-> <<"S","e","r","v","e","r">>],
    [cname |-> "SetCookie", bname |-> "MultiEntryHeader", category |-> "response", version |-> "1.0",
        name |-> <<"S","e","t","-","C","o","o","k","i","e">>],
    [cname |-> "TE", bname |-> "MultiValueHeader", category |-> "request", version |-> "1.1",
        name |-> <<"T","E">>],
    [cname |-> "Trailer", bname |-> "MultiValueHeader", category |-> "general", version |-> "1.1",
        name |-> <<"T","r","a","i","l","e","r">>],
    [cname |-> "TransferEncoding", bname |-> "MultiValueHeader", category |-> "general", version |-> "1.1",
        name |-> <<"T","r","a","n","s","f","e","r","-","E","n","c","o","d","i","n","g">>],
    [cname |-> "Upgrade", bname |-> "MultiValueHeader", category |-> "general", version |-> "1.1",
        name |-> <<"U","p","g","r","a","d","e">>],
    [cname |-> "UserAgent", bname |-> "SingleValueHeader", category |-> "request", version |-> "1.0",
        name |-> <<"U","s","e","r","-","A","g","e","n","t">>],
    [cname |-> "Vary", bname |-> "MultiValueHeader", category |-> "response", version |-> "1.1",
        name |-> <<"V","a","r","y">>],
    [cname |-> "Via", bname |-> "MultiValueHeader", category |-> "general", version |-> "1.1",
        name |-> <<"V","i","a">>],
    [cname |-> "Warning", bname |-> "MultiEntryHeader", category |-> "general", version |-> "1.1",
        name |-> <<"W","a","r","n","i","n","g">>],
    [cname |-> "WWWAuthenticate", bname |-> "MultiEntryHeader", category |-> "response", version |-> "1.0",
        name |-> <<"W","W","W","-","A","u","t","h","e","n","t","i","c","a","t","e">>]
>>

Declarations == Specialized \o Generated


\* the classes of the module that are not generated from a declaration
Abstract ==
    [SingleValueHeader |-> "HTTPHeader", MultiValueHeader |-> "HTTPHeader",
     MultiEntryHeader |-> "HTTPHeader", DateHeader |-> "SingleValueHeader",
     SingleValueCGIHeader |-> "SingleValueHeader"]

Declared(cls) == \E i \in 1..Len(Declarations) : Declarations[i].cname = cls

DeclarationOf(cls) ==
    Declarations[CHOOSE i \in 1..Len(Declarations) : Declarations[i].cname = cls]

\* the class a class is derived from
base(cls) == IF cls \in DOMAIN Abstract THEN Abstract[cls] ELSE DeclarationOf(cls).bname

RECURSIVE issubclass(_, _)
issubclass(cls, b) ==
    \/ cls = b
    \/ cls # "HTTPHeader" /\ issubclass(base(cls), b)

Classes ==
    {"HTTPHeader"} \cup DOMAIN Abstract
        \cup {Declarations[i].cname : i \in 1..Len(Declarations)}

\* the classes each class is derived from, itself among them
Ancestors == [cls \in Classes |-> {b \in Classes : issubclass(cls, b)}]

\* isinstance(self, b)
isinstance(self, b) == b \in Ancestors[self.cls]

\* getattr(self, 'version', '1.1'): the class attribute of a declared class
class_version(cls) == IF Declared(cls) THEN DeclarationOf(cls).version ELSE "1.1"

\* category=None, as an argument of a registration
NoCategory == "<None>"

SortOrder == [general |-> 1, request |-> 2, response |-> 3, entity |-> 4]

----------------------------------------------------------------------------
(* The registry.                                                           *)

wsgi_version == <<"w","s","g","i",".","v","e","r","s","i","o","n">>
HTTP_ == <<"H","T","T","P","_">>

\* get_header(name, raiseError) for a name given as a string
get_header(reg, name, raiseError) ==
    LET key == replace(lower(strip(name)), "_", "-")
        retval == IF key \in DOMAIN reg THEN Instance(reg[key].id) ELSE None
    IN  IF retval = None /\ raiseError
        THEN Raise("AssertionError")
        ELSE Return(retval)

\* the registry entry get_header finds for a name
found_header(reg, name) == reg[replace(lower(strip(name)), "_", "-")]

\* the instance object.__new__(cls) creates and the assignments to its attributes
NewInstance(id, cls, name, cat) ==
    [id |-> id, cls |-> cls, name |-> name,
     version |-> class_version(cls), category |-> cat,
     sort_order |-> SortOrder[cat], extensions |-> {},
     environ_name |-> HTTP_ \o replace(upper(name), "-", "_"),
     headers_name |-> lower(name)]

\* HTTPHeader.__new__(cls, name, category): the outcome and the registry after it
HTTPHeader_new(reg, id, cls, name, category) ==
    LET self == get_header(reg, name, FALSE).value
        unchanged(r) == [exc |-> r.exc, value |-> r.value, registry |-> reg, nextId |-> id]
    IN  IF self # None
        THEN LET old == found_header(reg, name)
             IN  IF old.name # name THEN unchanged(Raise("AssertionError"))
                 ELSE IF old.category # category THEN unchanged(Raise("AssertionError"))
                 ELSE IF cls # old.cls THEN unchanged(Raise("AssertionError"))
                 ELSE unchanged(Return(self))
        ELSE LET cat == IF category = NoCategory THEN "general" ELSE category
             IN  IF cat \notin DOMAIN SortOrder THEN unchanged(Raise("KeyError"))
                 ELSE LET inserted == (lower(name) :> NewInstance(id, cls, name, cat)) @@ reg
                      IN  IF ~ \/ issubclass(cls, "SingleValueHeader")
                               \/ issubclass(cls, "MultiValueHeader")
                               \/ issubclass(cls, "MultiEntryHeader")
                          THEN [exc |-> "AssertionError", value |-> None,
                                registry |-> inserted, nextId |-> id + 1]
                          \* the method ends without a return statement
                          ELSE [exc |-> NoExc, value |-> None,
                                registry |-> inserted, nextId |-> id + 1]

EmptyRegistry == [k \in {} |-> None]

\* _headers once the module is loaded: every declaration registers a field-name
\* that no earlier declaration registered, so each creates the instance that
\* HTTPHeader_new creates for it, in source order
Loaded ==
    [key \in {lower(Declarations[i].name) : i \in 1..Len(Declarations)} |->
        LET i == CHOOSE i \in 1..Len(Declarations) : lower(Declarations[i].name) = key
            d == Declarations[i]
        IN  NewInstance(i, d.cname, d.name, d.category)]

\* _headers: lower-cased field-name -> HTTPHeader instance.  No entry is ever
\* deleted, so it is the loaded table overridden by what was set since.
headers == registered @@ Loaded

\* _headers[key]
header(key) == IF key \in DOMAIN registered THEN registered[key] ELSE Loaded[key]

\* the entries of a registry that the loaded table does not hold
SinceLoaded(reg) ==
    [k \in {k \in DOMAIN reg : k \notin DOMAIN Loaded \/ reg[k] # Loaded[k]} |-> reg[k]]

\* HTTPHeader.__lt__(self, other) for two instances
HTTPHeader_lt(self, other) ==
    IF self.sort_order # other.sort_order
    THEN self.sort_order < other.sort_order
    ELSE str_lt(self.name, other.name)

\* list_headers(general, request, response, entity)
list_headers(reg, general, request, response, entity) ==
    LET search == {c \in {"general", "request", "response", "entity"} :
                        \/ c = "general" /\ general
                        \/ c = "request" /\ request
                        \/ c = "response" /\ response
                        \/ c = "entity" /\ entity}
    IN  IF \E k \in DOMAIN reg : reg[k].category \in search
        \* retval.append(head): the name retval is bound nowhere
        THEN Raise("NameError")
        \* retval.sort(): likewise
        ELSE Raise("NameError")

----------------------------------------------------------------------------
(* compose() and format().                                                 *)

\* the classes that define their own compose()
ComposeOverridden(cls) ==
    \/ issubclass(cls, "DateHeader")
    \/ cls \in {"CacheControl", "ContentType", "ContentDisposition"}

\* HTTPHeader.compose(**kwargs)
HTTPHeader_compose(kwargs) == Raise("NotImplementedError")

DayNames == <<<<"M","o","n">>, <<"T","u","e">>, <<"W","e","d">>, <<"T","h","u">>, <<"F","r","i">>, <<"S","a","t">>, <<"S","u","n">>>>

MonthNames ==
    <<<<"J","a","n">>, <<"F","e","b">>, <<"M","a","r">>, <<"A","p","r">>, <<"M","a","y">>, <<"J","u","n">>,
      <<"J","u","l">>, <<"A","u","g">>, <<"S","e","p">>, <<"O","c","t">>, <<"N","o","v">>, <<"D","e","c">>>>

\* the date of a day counted from 1 March 0000, in the Gregorian calendar
civil(z) ==
    LET era == z \div 146097
        doe == z % 146097
    IN  the({the({the({[year |-> yoe + era * 400 + (IF mp < 10 THEN 0 ELSE 1),
                        mon |-> IF mp < 10 THEN mp + 3 ELSE mp - 9,
                        mday |-> doy - (153 * mp + 2) \div 5 + 1] :
                            mp \in {(5 * doy + 2) \div 153}}) :
                    doy \in {doe - (365 * yoe + yoe \div 4 - yoe \div 100)}}) :
            yoe \in {(doe - doe \div 1460 + doe \div 36524 - doe \div 146096) \div 365}})

\* time.gmtime(timeval) for whole seconds
gmtime(timeval) ==
    LET days == timeval \div 86400
        secs == timeval % 86400
    IN  [date |-> civil(days + 719468),
         hour |-> secs \div 3600,
         min |-> (secs % 3600) \div 60,
         sec |-> secs % 60,
         wday |-> (days + 3) % 7]

\* rfc822.formatdate(timeval): 'Thu, 01 Jan 1970 00:00:00 GMT'
formatdate(timeval) ==
    the({DayNames[tm.wday + 1] \o <<",", " ">> \o pad2(tm.date.mday) \o <<" ">>
            \o MonthNames[tm.date.mon] \o <<" ">> \o pad4(tm.date.year) \o <<" ">>
            \o pad2(tm.hour) \o <<":">> \o pad2(tm.min) \o <<":">> \o pad2(tm.sec)
            \o <<" ","G","M","T">> :
                tm \in {gmtime(timeval)}})

\* DateHeader.compose that leaves delta out of the time
DateHeader_compose_undelayed(kwargs) ==
    IF ~(DOMAIN kwargs \subseteq {"time", "delta"}) THEN Raise("TypeError")
    ELSE LET time == kw(kwargs, "time", None)
             delta == kw(kwargs, "delta", None)
             t == IF truthy(time) THEN time.n ELSE clock
         IN  IF truthy(delta) /\ delta.t # "int" THEN Raise("AssertionError")
             ELSE Return(<<Str(formatdate(t))>>)

\* DateHeader.compose(time=None, delta=None), now() being the clock
DateHeader_compose(kwargs) ==
    IF ~(DOMAIN kwargs \subseteq {"time", "delta"}) THEN Raise("TypeError")
    ELSE LET time == kw(kwargs, "time", None)
             delta == kw(kwargs, "delta", None)
             t == IF truthy(time) THEN time.n ELSE clock
         IN  IF truthy(delta)
             THEN IF delta.t # "int" THEN Raise("AssertionError")
                  ELSE Return(<<Str(formatdate(t + delta.n))>>)
             ELSE Return(<<Str(formatdate(t))>>)

\* what _compose returns or raises
Composed(result, extra) == [exc |-> NoExc, result |-> result, extra |-> extra]
ComposeFails(e) == [exc |-> e, result |-> <<>>, extra |-> None]

\* the mechanism of CacheControl._compose with private not excluding s_maxage
CacheControl_mechanism_shared(public, private, no_cache, max_age, s_maxage) ==
    IF private = True
    THEN IF truthy(public) \/ truthy(no_cache)
         THEN ComposeFails("AssertionError")
         ELSE Composed(<<<<"p","r","i","v","a","t","e">>>>, IntVal(0))
    ELSE IF no_cache = True
    THEN IF truthy(public) \/ truthy(private) \/ truthy(max_age)
         THEN ComposeFails("AssertionError")
         ELSE Composed(<<<<"n","o","-","c","a","c","h","e">>>>, IntVal(0))
    ELSE IF ~(public = None \/ public = True) THEN ComposeFails("AssertionError")
    ELSE IF truthy(private) \/ truthy(no_cache) THEN ComposeFails("AssertionError")
    ELSE Composed(<<<<"p","u","b","l","i","c">>>>, max_age)

\* the mechanism of CacheControl._compose with private not excluding public
CacheControl_mechanism_both(public, private, no_cache, max_age, s_maxage) ==
    IF private = True
    THEN IF truthy(no_cache) \/ truthy(s_maxage)
         THEN ComposeFails("AssertionError")
         ELSE Composed(IF truthy(public) THEN <<<<"p","u","b","l","i","c">>, <<"p","r","i","v","a","t","e">>>> ELSE <<<<"p","r","i","v","a","t","e">>>>,
                       IntVal(0))
    ELSE IF no_cache = True
    THEN IF truthy(public) \/ truthy(private) \/ truthy(max_age)
         THEN ComposeFails("AssertionError")
         ELSE Composed(<<<<"n","o","-","c","a","c","h","e">>>>, IntVal(0))
    ELSE IF ~(public = None \/ public = True) THEN ComposeFails("AssertionError")
    ELSE IF truthy(private) \/ truthy(no_cache) THEN ComposeFails("AssertionError")
    ELSE Composed(<<<<"p","u","b","l","i","c">>>>, max_age)

\* CacheControl._compose, the mechanism: the first token and expires
CacheControl_mechanism(public, private, no_cache, max_age, s_maxage) ==
    IF private = True
    THEN IF truthy(public) \/ truthy(no_cache) \/ truthy(s_maxage)
         THEN ComposeFails("AssertionError")
         ELSE Composed(<<<<"p","r","i","v","a","t","e">>>>, IntVal(0))
    ELSE IF no_cache = True
    THEN IF truthy(public) \/ truthy(private) \/ truthy(max_age)
         THEN ComposeFails("AssertionError")
         ELSE Composed(<<<<"n","o","-","c","a","c","h","e">>>>, IntVal(0))
    ELSE IF ~(public = None \/ public = True) THEN ComposeFails("AssertionError")
    ELSE IF truthy(private) \/ truthy(no_cache) THEN ComposeFails("AssertionError")
    ELSE Composed(<<<<"p","u","b","l","i","c">>>>, max_age)

\* int(v) for an int or a bool
int(v) == IF v.t = "bool" THEN (IF v.b THEN 1 ELSE 0) ELSE v.n

\* CacheControl._compose, the modifiers: the tokens after the mechanism
CacheControl_modifiers(no_store, no_transform, max_age, s_maxage) ==
    (IF truthy(no_store) THEN <<<<"n","o","-","s","t","o","r","e">>>> ELSE <<>>)
        \o (IF truthy(no_transform) THEN <<<<"n","o","-","t","r","a","n","s","f","o","r","m">>>> ELSE <<>>)
        \o (IF max_age # None THEN <<<<"m","a","x","-","a","g","e","=">> \o format_d(int(max_age))>> ELSE <<>>)
        \o (IF s_maxage # None THEN <<<<"s","-","m","a","x","a","g","e","=">> \o format_d(int(s_maxage))>> ELSE <<>>)

\* the parameters CacheControl._compose names; every other keyword is an extension
CacheControlParams ==
    {"public", "private", "no_cache", "no_store", "max_age", "s_maxage", "no_transform"}

\* the spelling of the extension keywords the callers of the model use
Spelling == [community |-> <<"c","o","m","m","u","n","i","t","y">>]

\* CacheControl._compose, the extensions, in the order the dict yields them
RECURSIVE CacheControl_extensions(_, _, _)
CacheControl_extensions(self, kwargs, keys) ==
    IF keys = {} THEN Composed(<<>>, None)
    ELSE LET k == CHOOSE k \in keys : TRUE
             rest == CacheControl_extensions(self, kwargs, keys \ {k})
         IN  IF k \notin self.extensions THEN ComposeFails("AssertionError")
             ELSE IF rest.exc # NoExc THEN rest
             ELSE Composed(<<replace(Spelling[k], "_", "-") \o <<"=", "\"">>
                                \o str(kwargs[k]) \o <<"\"">> >> \o rest.result, None)

\* CacheControl._compose(**kwargs): (result, expires)
CacheControl__compose(self, kwargs) ==
    LET public == kw(kwargs, "public", None)
        private == kw(kwargs, "private", None)
        no_cache == kw(kwargs, "no_cache", None)
        no_store == kw(kwargs, "no_store", False)
        max_age == kw(kwargs, "max_age", None)
        s_maxage == kw(kwargs, "s_maxage", None)
        no_transform == kw(kwargs, "no_transform", False)
    IN  IF max_age.t \notin {"None", "int", "bool"} THEN ComposeFails("AssertionError")
        ELSE IF s_maxage.t \notin {"None", "int", "bool"} THEN ComposeFails("AssertionError")
        ELSE the({
            IF mechanism.exc # NoExc THEN mechanism
            ELSE the({
                IF extensions.exc # NoExc THEN extensions
                ELSE Composed(mechanism.result
                                \o CacheControl_modifiers(no_store, no_transform,
                                                          max_age, s_maxage)
                                \o extensions.result,
                              mechanism.extra) :
                    extensions \in {CacheControl_extensions(self, kwargs,
                                        DOMAIN kwargs \ CacheControlParams)}}) :
                mechanism \in {CacheControl_mechanism(public, private, no_cache,
                                                      max_age, s_maxage)}})

\* a tuple or list of str, as the arguments format() takes
Strs(result) == [i \in 1..Len(result) |-> Str(result[i])]

\* CacheControl.compose(**kwargs)
CacheControl_compose(self, kwargs) ==
    the({IF c.exc # NoExc THEN Raise(c.exc) ELSE Return(Strs(c.result)) :
            c \in {CacheControl__compose(self, kwargs)}})

\* ContentType.compose(major=None, minor=None, charset=None)
ContentType_compose(kwargs) ==
    IF ~(DOMAIN kwargs \subseteq {"major", "minor", "charset"}) THEN Raise("TypeError")
    ELSE LET major == kw(kwargs, "major", None)
             minor == kw(kwargs, "minor", None)
             charset == kw(kwargs, "charset", None)
             typed(maj) ==
                LET result == str(maj) \o <<"/">>
                                \o (IF ~truthy(minor) THEN <<"*">> ELSE str(minor))
                IN  IF truthy(charset)
                    THEN Return(<<Str(result \o <<";"," ","c","h","a","r","s","e","t","=">> \o str(charset))>>)
                    ELSE Return(<<Str(result)>>)
         IN  IF ~truthy(major)
             THEN IF minor \in {Str(<<"p","l","a","i","n">>), Str(<<"h","t","m","l">>), Str(<<"x","m","l">>)}
                  THEN typed(Str(<<"t","e","x","t">>))
                  ELSE IF truthy(minor) \/ truthy(charset) THEN Raise("AssertionError")
                  ELSE Return(<<Str(<<"a","p","p","l","i","c","a","t","i","o","n","/","o","c","t","e","t","-","s","t","r","e","a","m">>)>>)
             ELSE typed(major)

\* the basename of ContentDisposition._compose splitting at "/" only
basename_slash_only(filename) == after_last(filename, "/")

\* filename.split("/")[-1] and then .split("\\")[-1]
basename(filename) == after_last(after_last(filename, "/"), "\\")

\* ContentDisposition._compose(attachment=None, inline=None, filename=None):
\* (result, filename)
ContentDisposition__compose(kwargs) ==
    IF ~(DOMAIN kwargs \subseteq {"attachment", "inline", "filename"})
    THEN ComposeFails("TypeError")
    ELSE LET attachment == kw(kwargs, "attachment", None)
             inline == kw(kwargs, "inline", None)
             filename == kw(kwargs, "filename", None)
             disposition == IF inline = True THEN <<"i","n","l","i","n","e">> ELSE <<"a","t","t","a","c","h","m","e","n","t">>
         IN  IF inline = True /\ truthy(attachment) THEN ComposeFails("AssertionError")
             ELSE IF inline # True /\ truthy(inline) THEN ComposeFails("AssertionError")
             ELSE IF ~truthy(filename) THEN Composed(<<disposition>>, filename)
             ELSE IF \E i \in 1..Len(filename.s) : filename.s[i] = "\""
             THEN ComposeFails("AssertionError")
             ELSE Composed(<<join(<<";", " ">>,
                                  <<disposition,
                                    <<"f","i","l","e","n","a","m","e","=","\"">> \o basename(filename.s) \o <<"\"">> >>)>>,
                           Str(basename(filename.s)))

\* ContentDisposition.compose(**kwargs)
ContentDisposition_compose(kwargs) ==
    the({IF c.exc # NoExc THEN Raise(c.exc) ELSE Return(Strs(c.result)) :
            c \in {ContentDisposition__compose(kwargs)}})

\* self.compose(**kwargs), by the class of self
compose(self, kwargs) ==
    CASE ~ComposeOverridden(self.cls) -> HTTPHeader_compose(kwargs)
      [] isinstance(self, "DateHeader") -> DateHeader_compose(kwargs)
      [] self.cls = "CacheControl" -> CacheControl_compose(self, kwargs)
      [] self.cls = "ContentType" -> ContentType_compose(kwargs)
      [] self.cls = "ContentDisposition" -> ContentDisposition_compose(kwargs)

\* SingleValueHeader.format taking the first of several values
SingleValueHeader_format_first(values) ==
    IF Len(values) = 0 THEN Return(None)
    ELSE Return(Str(strip(str(values[1]))))

\* SingleValueHeader.format without the strip()
SingleValueHeader_format_unstripped(values) ==
    IF Len(values) = 0 THEN Return(None)
    ELSE IF Len(values) # 1 THEN Raise("AssertionError")
    ELSE Return(Str(str(values[1])))

\* SingleValueHeader.format(*values)
SingleValueHeader_format(values) ==
    IF Len(values) = 0 THEN Return(None)
    ELSE IF Len(values) # 1 THEN Raise("AssertionError")
    ELSE Return(Str(strip(str(values[1]))))

\* MultiValueHeader.format joining with a bare comma
MultiValueHeader_format_comma(values) ==
    IF Len(values) = 0 THEN Return(None)
    ELSE Return(Str(join(<<",">>, [i \in 1..Len(values) |-> strip(str(values[i]))])))

\* MultiValueHeader.format(*values)
MultiValueHeader_format(values) ==
    IF Len(values) = 0 THEN Return(None)
    ELSE Return(Str(join(<<",", " ">>, [i \in 1..Len(values) |-> strip(str(values[i]))])))

\* MultiEntryHeader.format joining the values as a multi-value header does
MultiEntryHeader_format_joined(values) ==
    IF Len(values) = 0 THEN Return(None)
    ELSE Return(StrList(
            <<join(<<",", " ">>, [i \in 1..Len(values) |-> strip(str(values[i]))])>>))

\* MultiEntryHeader.format(*values)
MultiEntryHeader_format(values) ==
    IF Len(values) = 0 THEN Return(None)
    ELSE Return(StrList([i \in 1..Len(values) |-> strip(str(values[i]))]))

\* self.format(*values), by the class of self
format(self, values) ==
    CASE isinstance(self, "SingleValueHeader") -> SingleValueHeader_format(values)
      [] isinstance(self, "MultiValueHeader") -> MultiValueHeader_format(values)
      [] isinstance(self, "MultiEntryHeader") -> MultiEntryHeader_format(values)

----------------------------------------------------------------------------
(* __call__: find or construct the field-value.                            *)

\* [value for header, value in args[0] if header.lower() == name]
RECURSIVE collect(_, _)
collect(l, name) ==
    IF Len(l) = 0 THEN <<>>
    ELSE IF lower(l[1][1]) = name
         THEN <<Str(l[1][2])>> \o collect(Tail(l), name)
         ELSE collect(Tail(l), name)

\* HTTPHeader.__call__(*args, **kwargs)
HTTPHeader_call(self, args, kwargs) ==
    IF Len(args) = 0
    THEN the({IF c.exc # NoExc THEN c ELSE format(self, c.value) :
                c \in {compose(self, kwargs)}})
    ELSE IF args[1].t = "list"
    THEN IF Len(args) # 1 THEN Raise("AssertionError")
         ELSE format(self, collect(args[1].l, lower(self.name)))
    ELSE IF args[1].t = "dict"
    THEN IF ~(Len(args) = 1 /\ wsgi_version \in DOMAIN args[1].d)
         THEN Raise("AssertionError")
         ELSE LET value == get(args[1].d, self.environ_name)
              IN  IF value = None THEN Return(None) ELSE format(self, <<value>>)
    ELSE IF \E i \in 1..Len(args) : args[i].t \in {"dict", "list"}
         THEN Raise("AssertionError")
         ELSE format(self, args)

\* SingleValueCGIHeader.__call__(*args, **kwargs)
SingleValueCGIHeader_call(self, args, kwargs) ==
    IF /\ Len(args) > 0
       /\ args[1].t = "dict"
       /\ ~truthy(get(args[1].d, self.environ_name))
    THEN LET cgi_name == SubSeq(self.environ_name, 6, Len(self.environ_name))
         IN  format(self, <<get(args[1].d, cgi_name)>>)
    ELSE HTTPHeader_call(self, args, kwargs)

\* self(*args, **kwargs), by the class of self
Call(self, args, kwargs) ==
    IF isinstance(self, "SingleValueCGIHeader")
    THEN SingleValueCGIHeader_call(self, args, kwargs)
    ELSE HTTPHeader_call(self, args, kwargs)

\* str.split(): the words between runs of whitespace
RECURSIVE words(_)
words(s) ==
    IF Len(lstrip(s)) = 0 THEN <<>>
    ELSE the({IF \E i \in 1..Len(t) : IsSpace(t[i])
              THEN LET i == CHOOSE i \in 1..Len(t) :
                                IsSpace(t[i]) /\ \A j \in 1..(i - 1) : ~IsSpace(t[j])
                   IN  <<SubSeq(t, 1, i - 1)>> \o words(SubSeq(t, i + 1, Len(t)))
              ELSE <<t>> :
                 t \in {lstrip(s)}})

IsDigits(s) == Len(s) > 0 /\ \A i \in 1..Len(s) : \E d \in 1..10 : Digits[d] = s[i]

\* int(s) for a str of decimal digits
RECURSIVE atoi(_)
atoi(s) ==
    IF Len(s) = 0 THEN 0
    ELSE atoi(SubSeq(s, 1, Len(s) - 1)) * 10
            + (CHOOSE d \in 0..9 : Digits[d + 1] = s[Len(s)])

GMT == <<"G","M","T">>

\* rfc822.parsedate_tz(data) for a date with a day name ending in a comma, a
\* four-digit year, a time of three parts and the zone GMT; None for every
\* other value
parsedate_tz(data) ==
    the({IF Len(w) = 0 \/ w[1][Len(w[1])] # "," THEN None
         ELSE IF Len(w) # 6 THEN None
         ELSE the({IF \/ ~IsDigits(w[2])
                      \/ ~\E m \in 1..12 : lower(MonthNames[m]) = lower(w[3])
                      \/ ~(IsDigits(w[4]) /\ Len(w[4]) = 4)
                      \/ Len(tm) # 3
                      \/ \E i \in 1..Len(tm) : ~IsDigits(tm[i])
                      \/ w[6] # GMT
                   THEN None
                   ELSE [t |-> "tuple",
                         year |-> atoi(w[4]),
                         mon |-> CHOOSE m \in 1..12 : lower(MonthNames[m]) = lower(w[3]),
                         mday |-> atoi(w[2]),
                         hour |-> atoi(tm[1]), min |-> atoi(tm[2]), sec |-> atoi(tm[3]),
                         tzoffset |-> 0] :
                      tm \in {split(w[5], ":")}}) :
            w \in {words(data)}})

\* the days from 1 January 1970 to a date of the Gregorian calendar
days_from_civil(year, mon, mday) ==
    LET y == IF mon <= 2 THEN year - 1 ELSE year
        yoe == y % 400
        mp == IF mon > 2 THEN mon - 3 ELSE mon + 9
        doy == (153 * mp + 2) \div 5 + mday - 1
    IN  (y \div 400) * 146097 + yoe * 365 + yoe \div 4 - yoe \div 100 + doy - 719468

\* rfc822.mktime_tz(data): the seconds since the epoch of a parsed date
mktime_tz(data) ==
    days_from_civil(data.year, data.mon, data.mday) * 86400
        + data.hour * 3600 + data.min * 60 + data.sec - data.tzoffset

\* DateHeader.time(*args, **kwargs)
DateHeader_time(self, args, kwargs) ==
    the({IF value.exc # NoExc THEN value
         ELSE IF value.value = None THEN Return(None)
         ELSE the({IF data = None
                   \* mktime_tz(None) raises TypeError
                   THEN Raise("HTTPBadRequest")
                   ELSE Return(IntVal(mktime_tz(data))) :
                      data \in {parsedate_tz(value.value.s)}}) :
            value \in {Call(self, args, kwargs)}})

\* IfModifiedSince.time refusing the current time as well
IfModifiedSince_time_or_equal(self, args, kwargs) ==
    the({IF value.exc # NoExc THEN value
         ELSE IF truthy(value.value) /\ value.value.n >= clock
         THEN Raise("HTTPBadRequest")
         ELSE value :
            value \in {DateHeader_time(self, args, kwargs)}})

\* IfModifiedSince.time(*args, **kwargs), now() being the clock
IfModifiedSince_time(self, args, kwargs) ==
    the({IF value.exc # NoExc THEN value
         ELSE IF truthy(value.value) /\ value.value.n > clock
         THEN Raise("HTTPBadRequest")
         ELSE value :
            value \in {DateHeader_time(self, args, kwargs)}})

\* self.time(*args, **kwargs), by the class of self
time(self, args, kwargs) ==
    IF self.cls = "IfModifiedSince" THEN IfModifiedSince_time(self, args, kwargs)
    ELSE IF isinstance(self, "DateHeader") THEN DateHeader_time(self, args, kwargs)
    ELSE Raise("AttributeError")

----------------------------------------------------------------------------
(* delete(), update() and tuples().  Each yields the outcome of the call   *)
(* and the container as the call leaves it.                                *)

Outcome(r, coll) == [exc |-> r.exc, value |-> r.value, collection |-> coll]

\* del l[i]
RemoveAt(l, i) == SubSeq(l, 1, i - 1) \o SubSeq(l, i + 1, Len(l))

\* del d[key]
DelKey(d, key) == [k \in DOMAIN d \ {key} |-> d[k]]

\* d[key] = value
SetKey(d, key, value) == (key :> value) @@ d

\* the while loop of HTTPHeader.delete dropping the rest of the list at the first match
RECURSIVE delete_loop_truncating(_, _, _)
delete_loop_truncating(self, l, i) ==
    IF ~(i <= Len(l)) THEN l
    ELSE IF lower(l[i][1]) = self.headers_name
         THEN SubSeq(l, 1, i - 1)
         ELSE delete_loop_truncating(self, l, i + 1)

\* the while loop of HTTPHeader.delete; i counts from 1
RECURSIVE delete_loop(_, _, _)
delete_loop(self, l, i) ==
    IF ~(i <= Len(l)) THEN l
    ELSE IF lower(l[i][1]) = self.headers_name
         THEN delete_loop(self, RemoveAt(l, i), i)
         ELSE delete_loop(self, l, i + 1)

\* HTTPHeader.delete(collection)
HTTPHeader_delete(self, coll) ==
    IF coll.t = "dict"
    THEN IF self.environ_name \in DOMAIN coll.d
         THEN Outcome(Return(Instance(self.id)), Dict(DelKey(coll.d, self.environ_name)))
         ELSE Outcome(Return(Instance(self.id)), coll)
    ELSE IF coll.t # "list" THEN Outcome(Raise("AssertionError"), coll)
    ELSE Outcome(Return(Instance(self.id)), List(delete_loop(self, coll.l, 1)))

\* the loop of HTTPHeader.update stepping past the entry that follows a deleted one
RECURSIVE update_loop_skipping(_, _, _, _, _)
update_loop_skipping(self, l, i, found, value) ==
    IF ~(i <= Len(l)) THEN [l |-> l, found |-> found]
    ELSE IF lower(l[i][1]) = self.headers_name
         THEN IF found
              THEN update_loop_skipping(self, RemoveAt(l, i), i + 1, found, value)
              ELSE update_loop_skipping(self, [l EXCEPT ![i] = <<self.name, value>>],
                                        i + 1, TRUE, value)
         ELSE update_loop_skipping(self, l, i + 1, found, value)

\* the while loop of HTTPHeader.update; i counts from 1
RECURSIVE update_loop(_, _, _, _, _)
update_loop(self, l, i, found, value) ==
    IF ~(i <= Len(l)) THEN [l |-> l, found |-> found]
    ELSE IF lower(l[i][1]) = self.headers_name
         THEN IF found
              THEN update_loop(self, RemoveAt(l, i), i, found, value)
              ELSE update_loop(self, [l EXCEPT ![i] = <<self.name, value>>],
                               i + 1, TRUE, value)
         ELSE update_loop(self, l, i + 1, found, value)

\* HTTPHeader.update(collection, *args, **kwargs)
HTTPHeader_update(self, coll, args, kwargs) ==
    the({IF r.exc # NoExc THEN Outcome(r, coll)
         \* self.remove(connection): HTTPHeader has no attribute remove
         ELSE IF r.value = None THEN Outcome(Raise("AttributeError"), coll)
         ELSE IF coll.t = "dict"
         THEN Outcome(r, Dict(SetKey(coll.d, self.environ_name, r.value.s)))
         ELSE IF coll.t # "list" THEN Outcome(Raise("AssertionError"), coll)
         ELSE the({IF ~done.found
                   THEN Outcome(r, List(Append(done.l, <<self.name, r.value.s>>)))
                   ELSE Outcome(r, List(done.l)) :
                        done \in {update_loop(self, coll.l, 1, FALSE, r.value.s)}}) :
            r \in {Call(self, args, kwargs)}})

\* MultiEntryHeader.update as a stub that passes
MultiEntryHeader_update_pass(self, coll, args, kwargs) ==
    Outcome(Return(None), coll)

\* MultiEntryHeader.update(collection, *args, **kwargs)
MultiEntryHeader_update(self, coll, args, kwargs) ==
    Outcome(Raise("NotImplementedError"), coll)

\* self.update(collection, *args, **kwargs), by the class of self
update(self, coll, args, kwargs) ==
    IF isinstance(self, "MultiEntryHeader")
    THEN MultiEntryHeader_update(self, coll, args, kwargs)
    ELSE HTTPHeader_update(self, coll, args, kwargs)

\* HTTPHeader.apply(collection, **kwargs)
HTTPHeader_apply(self, coll, kwargs) == update(self, coll, <<>>, kwargs)

\* the module's name Expires, bound to the instance when the module is loaded
Expires == Loaded[<<"e","x","p","i","r","e","s">>]

\* CacheControl.apply updating Expires only for an expires that is true
CacheControl_apply_truthy(self, coll, kwargs) ==
    the({IF c.exc # NoExc THEN Outcome(Raise(c.exc), coll)
         ELSE the({IF expired.exc # NoExc THEN expired
                   ELSE the({IF updated.exc # NoExc THEN updated
                             ELSE Outcome(Return(c.extra), updated.collection) :
                                updated \in {update(self, expired.collection,
                                                    Strs(c.result), NoKw)}}) :
                      expired \in {IF truthy(c.extra)
                                   THEN update(Expires, coll, <<>>, [delta |-> c.extra])
                                   ELSE Outcome(Return(None), coll)}}) :
            c \in {CacheControl__compose(self, kwargs)}})

\* CacheControl.apply(collection, **kwargs)
CacheControl_apply(self, coll, kwargs) ==
    the({IF c.exc # NoExc THEN Outcome(Raise(c.exc), coll)
         ELSE the({IF expired.exc # NoExc THEN expired
                   ELSE the({IF updated.exc # NoExc THEN updated
                             ELSE Outcome(Return(c.extra), updated.collection) :
                                updated \in {update(self, expired.collection,
                                                    Strs(c.result), NoKw)}}) :
                      expired \in {IF c.extra # None
                                   THEN update(Expires, coll, <<>>, [delta |-> c.extra])
                                   ELSE Outcome(Return(None), coll)}}) :
            c \in {CacheControl__compose(self, kwargs)}})

\* the module's name ContentType, bound to the instance when the module is loaded
ContentType == Loaded[<<"c","o","n","t","e","n","t","-","t","y","p","e">>]

\* ContentType.UNKNOWN
UNKNOWN == <<"a","p","p","l","i","c","a","t","i","o","n","/","o","c","t","e","t","-","s","t","r","e","a","m">>

\* mimetypes.types_map, the extensions that the filenames of the model carry
types_map ==
    (<<".","p","d","f">> :> <<"a","p","p","l","i","c","a","t","i","o","n","/","p","d","f">>)
        @@ (<<".","c">> :> <<"t","e","x","t","/","p","l","a","i","n">>)
        @@ (<<".","a">> :> <<"a","p","p","l","i","c","a","t","i","o","n","/","o","c","t","e","t","-","s","t","r","e","a","m">>)

\* posixpath.splitext(p)[1]: from the last dot of the last component of the
\* path, unless only dots stand before it
splitext(p) ==
    LET name == after_last(p, "/")
        dots == {i \in 1..Len(name) : name[i] = "." /\ \E j \in 1..(i - 1) : name[j] # "."}
    IN  IF dots = {} THEN <<>>
        ELSE SubSeq(name, CHOOSE i \in dots : \A j \in dots : j <= i, Len(name))

\* mimetypes.guess_type(url)[0] for a name without an encoding suffix
guess_type(url) ==
    the({IF ext \in DOMAIN types_map THEN Str(types_map[ext])
         ELSE IF lower(ext) \in DOMAIN types_map THEN Str(types_map[lower(ext)])
         ELSE None :
            ext \in {splitext(url)}})

\* ContentDisposition.apply, the mimetype and the Content-Type it leaves when
\* it guesses from the filename whatever Content-Type the collection holds
ContentDisposition_upgrade_always(coll, filename, mimetype) ==
    IF truthy(filename)
    THEN the({IF truthy(guessed) /\ guessed # Str(UNKNOWN)
              THEN the({IF typed.exc # NoExc THEN typed
                        ELSE Outcome(Return(guessed), typed.collection) :
                           typed \in {update(ContentType, coll, <<guessed>>, NoKw)}})
              ELSE Outcome(Return(guessed), coll) :
                 guessed \in {guess_type(filename.s)}})
    ELSE Outcome(Return(mimetype), coll)

\* ContentDisposition.apply, the if statement: the mimetype and the
\* Content-Type it leaves
ContentDisposition_upgrade(coll, filename, mimetype) ==
    IF truthy(filename) /\ (~truthy(mimetype) \/ Str(UNKNOWN) = mimetype)
    THEN the({IF truthy(guessed) /\ guessed # Str(UNKNOWN)
              THEN the({IF typed.exc # NoExc THEN typed
                        ELSE Outcome(Return(guessed), typed.collection) :
                           typed \in {update(ContentType, coll, <<guessed>>, NoKw)}})
              ELSE Outcome(Return(guessed), coll) :
                 guessed \in {guess_type(filename.s)}})
    ELSE Outcome(Return(mimetype), coll)

\* ContentDisposition.apply writing the header before it composes the value
ContentDisposition_apply_unchecked(self, coll, kwargs) ==
    the({IF c.exc # NoExc
         THEN Outcome(Raise(c.exc),
                      update(self, coll, <<Str(<<"a","t","t","a","c","h","m","e","n","t">>)>>, NoKw).collection)
         ELSE the({IF mimetype.exc # NoExc THEN Outcome(mimetype, coll)
                   ELSE the({IF upgraded.exc # NoExc THEN upgraded
                             ELSE the({IF updated.exc # NoExc THEN updated
                                       ELSE Outcome(Return(upgraded.value),
                                                    updated.collection) :
                                          updated \in {update(self, upgraded.collection,
                                                              Strs(c.result), NoKw)}}) :
                                upgraded \in {ContentDisposition_upgrade(
                                                coll, c.extra, mimetype.value)}}) :
                      mimetype \in {Call(ContentType, <<coll>>, NoKw)}}) :
            c \in {ContentDisposition__compose(kwargs)}})

\* ContentDisposition.apply(collection, **kwargs)
ContentDisposition_apply(self, coll, kwargs) ==
    the({IF c.exc # NoExc THEN Outcome(Raise(c.exc), coll)
         ELSE the({IF mimetype.exc # NoExc THEN Outcome(mimetype, coll)
                   ELSE the({IF upgraded.exc # NoExc THEN upgraded
                             ELSE the({IF updated.exc # NoExc THEN updated
                                       ELSE Outcome(Return(upgraded.value),
                                                    updated.collection) :
                                          updated \in {update(self, upgraded.collection,
                                                              Strs(c.result), NoKw)}}) :
                                upgraded \in {ContentDisposition_upgrade(
                                                coll, c.extra, mimetype.value)}}) :
                      mimetype \in {Call(ContentType, <<coll>>, NoKw)}}) :
            c \in {ContentDisposition__compose(kwargs)}})

\* self.apply(collection, **kwargs), by the class of self
apply(self, coll, kwargs) ==
    CASE self.cls = "CacheControl" -> CacheControl_apply(self, coll, kwargs)
      [] self.cls = "ContentDisposition" -> ContentDisposition_apply(self, coll, kwargs)
      [] OTHER -> HTTPHeader_apply(self, coll, kwargs)

\* HTTPHeader.tuples(*args, **kwargs): the outcome, its value a sequence of pairs
HTTPHeader_tuples(self, args, kwargs) ==
    the({IF r.exc # NoExc THEN r
         ELSE IF r.value = None \/ Len(r.value.s) = 0 THEN Return(List(<<>>))
         ELSE Return(List(<< <<self.name, r.value.s>> >>)) :
            r \in {Call(self, args, kwargs)}})

\* MultiEntryHeader.tuples(*args, **kwargs)
MultiEntryHeader_tuples(self, args, kwargs) ==
    the({IF r.exc # NoExc THEN r
         ELSE IF r.value = None THEN Return(List(<<>>))
         ELSE Return(List([i \in 1..Len(r.value.strs) |->
                                <<self.name, r.value.strs[i]>>])) :
            r \in {Call(self, args, kwargs)}})

\* self.tuples(*args, **kwargs), by the class of self
tuples(self, args, kwargs) ==
    IF isinstance(self, "MultiEntryHeader")
    THEN MultiEntryHeader_tuples(self, args, kwargs)
    ELSE HTTPHeader_tuples(self, args, kwargs)

\* the for loop of normalize_headers: the list with the names rewritten so far
\* and the category recorded for each name; a failed lookup ends it
RECURSIVE normalize_loop(_, _, _, _, _)
normalize_loop(reg, l, idx, category, strict) ==
    IF ~(idx <= Len(l)) THEN [exc |-> NoExc, l |-> l, category |-> category]
    ELSE the({
        IF head.exc # NoExc THEN [exc |-> head.exc, l |-> l, category |-> category]
        ELSE IF head.value = None
        THEN the({normalize_loop(reg, [l EXCEPT ![idx] = <<newhead, l[idx][2]>>],
                                 idx + 1, (newhead :> 4) @@ category, strict) :
                     newhead \in {join(<<"-">>,
                        [i \in 1..Len(split(replace(l[idx][1], "_", "-"), "-")) |->
                            capitalize(split(replace(l[idx][1], "_", "-"), "-")[i])])}})
        ELSE the({normalize_loop(reg, [l EXCEPT ![idx] = <<found.name, l[idx][2]>>],
                                 idx + 1, (found.name :> found.sort_order) @@ category,
                                 strict) :
                     found \in {found_header(reg, l[idx][1])}}) :
            head \in {get_header(reg, l[idx][1], strict)}})

\* compare(a, b) of normalize_headers, ordering by name alone
compare_by_name(category, a, b) == cmp(a[1], b[1])

\* compare(a, b) of normalize_headers
compare(category, a, b) ==
    IF category[a[1]] = category[b[1]]
    THEN cmp(a[1], b[1])
    ELSE IF category[a[1]] < category[b[1]] THEN -1 ELSE 1

\* one entry put into a sorted list ahead of the entries that compare equal to it
RECURSIVE insert_before_equal(_, _, _)
insert_before_equal(category, sorted, e) ==
    IF Len(sorted) = 0 THEN <<e>>
    ELSE IF compare(category, sorted[1], e) >= 0 THEN <<e>> \o sorted
    ELSE <<sorted[1]>> \o insert_before_equal(category, Tail(sorted), e)

\* one entry put into a sorted list, behind the entries that compare equal to it
RECURSIVE insert(_, _, _)
insert(category, sorted, e) ==
    IF Len(sorted) = 0 THEN <<e>>
    ELSE IF compare(category, sorted[1], e) > 0 THEN <<e>> \o sorted
    ELSE <<sorted[1]>> \o insert(category, Tail(sorted), e)

\* list.sort(compare): entries that compare equal keep their order
RECURSIVE sort(_, _, _)
sort(category, l, n) ==
    IF n = 0 THEN <<>> ELSE insert(category, sort(category, l, n - 1), l[n])

\* normalize_headers(response_headers, strict): the outcome and the list after it
normalize_headers(reg, response_headers, strict) ==
    IF response_headers.t = "dict"
    \* response_headers[0] of an environ; .sort of an empty dict
    THEN Outcome(Raise(IF DOMAIN response_headers.d # {} THEN "KeyError"
                       ELSE "AttributeError"), response_headers)
    ELSE the({IF done.exc # NoExc
              THEN Outcome(Raise(done.exc), List(done.l))
              ELSE Outcome(Return(None), List(sort(done.category, done.l, Len(done.l)))) :
                 done \in {normalize_loop(reg, response_headers.l, 1, <<>>, strict)}})

----------------------------------------------------------------------------
(* The calls a program makes, as actions on its container.                 *)


\* an environ as the server hands it over, before any header is set
BaseEnviron == wsgi_version :> <<"1", ".", "0">>

Called(op, h, args, kwargs) ==
    [op |-> op, self |-> h, args |-> args, kwargs |-> kwargs, before |-> collection]

\* H(*args, **kwargs)
DoCall(h, args, kwargs) ==
    /\ last' = Called("call", h, args, kwargs)
    /\ ret' = Call(header(h), args, kwargs)
    /\ UNCHANGED <<registered, nextId, collection, regLog, clock, parked>>

\* H(collection)
Read(h) == DoCall(h, <<collection>>, NoKw)

\* H.update(collection, *args, **kwargs)
DoUpdate(h, args, kwargs) ==
    \E o \in {update(header(h), collection, args, kwargs)} :
        /\ o.collection.t = "list" => Len(o.collection.l) <= MaxLen
        /\ last' = Called("update", h, args, kwargs)
        /\ ret' = [exc |-> o.exc, value |-> o.value]
        /\ collection' = o.collection
        /\ UNCHANGED <<registered, nextId, regLog, clock, parked>>

\* H.delete(collection)
DoDelete(h) ==
    \E o \in {HTTPHeader_delete(header(h), collection)} :
        /\ last' = Called("delete", h, <<>>, NoKw)
        /\ ret' = [exc |-> o.exc, value |-> o.value]
        /\ collection' = o.collection
        /\ UNCHANGED <<registered, nextId, regLog, clock, parked>>

\* response_headers.extend(H.tuples(*args))
DoExtend(h, args) ==
    \E r \in {tuples(header(h), args, NoKw)} :
        /\ collection.t = "list"
        /\ Len(collection.l) + Len(args) <= MaxLen
        /\ last' = Called("extend", h, args, NoKw)
        /\ ret' = r
        /\ collection' = IF r.exc = NoExc THEN List(collection.l \o r.value.l)
                         ELSE collection
        /\ UNCHANGED <<registered, nextId, regLog, clock, parked>>

\* response_headers.append((name, value)), by the application
AppendEntry(name, value) ==
    /\ collection.t = "list"
    /\ Len(collection.l) < MaxLen
    /\ last' = Called("append", name, <<Str(value)>>, NoKw)
    /\ ret' = Return(None)
    /\ collection' = List(Append(collection.l, <<name, value>>))
    /\ UNCHANGED <<registered, nextId, regLog, clock, parked>>

\* environ[key] = value, by the server
SetEnviron(key, value) ==
    /\ collection.t = "dict"
    /\ last' = Called("setitem", key, <<Str(value)>>, NoKw)
    /\ ret' = Return(None)
    /\ collection' = Dict(SetKey(collection.d, key, value))
    /\ UNCHANGED <<registered, nextId, regLog, clock, parked>>

\* cls(name, category), a registration after the module was loaded
Register(cls, name, category) ==
    \E r \in {HTTPHeader_new(headers, nextId, cls, name, category)} :
        /\ Len(regLog) < MaxRegs
        /\ registered' = SinceLoaded(r.registry)
        /\ nextId' = r.nextId
        /\ last' = Called("register", name, <<cls, category>>, NoKw)
        /\ ret' = [exc |-> r.exc, value |-> r.value]
        /\ regLog' = Append(regLog,
                [cls |-> cls, name |-> name, category |-> category,
                 fresh |-> get_header(headers, name, FALSE).value = None,
                 exc |-> r.exc, value |-> r.value])
        /\ UNCHANGED <<collection, clock, parked>>

\* the time at which the module is loaded: Sat, 03 Jan 1970 23:59:58 GMT
StartTime == 2 * 86400 + 23 * 3600 + 59 * 60 + 58

\* H.compose(**kwargs)
DoCompose(h, kwargs) ==
    \E c \in {compose(header(h), kwargs)} :
        /\ last' = Called("compose", h, <<>>, kwargs)
        /\ ret' = IF c.exc # NoExc THEN c
                  ELSE Return(StrList([i \in 1..Len(c.value) |-> c.value[i].s]))
        /\ UNCHANGED <<registered, nextId, collection, regLog, clock, parked>>

\* H.apply(collection, **kwargs)
DoApply(h, kwargs) ==
    \E o \in {apply(header(h), collection, kwargs)} :
        /\ o.collection.t = "list" => Len(o.collection.l) <= MaxLen
        /\ last' = Called("apply", h, <<>>, kwargs)
        /\ ret' = [exc |-> o.exc, value |-> o.value]
        /\ collection' = o.collection
        /\ UNCHANGED <<registered, nextId, regLog, clock, parked>>

\* H.time(*args, **kwargs)
DoTime(h, args, kwargs) ==
    /\ last' = Called("time", h, args, kwargs)
    /\ ret' = time(header(h), args, kwargs)
    /\ UNCHANGED <<registered, nextId, collection, regLog, clock, parked>>

\* H.time(H.compose(...)[0]): the value composed last is parsed
TimeOfComposed(h) ==
    /\ last.op = "compose"
    /\ last.self = h
    /\ ret.exc = NoExc
    /\ DoTime(h, <<Str(ret.value.strs[1])>>, NoKw)

\* a second passes
Tick ==
    /\ clock < StartTime + MaxTicks
    /\ clock' = clock + 1
    /\ last' = Called("tick", <<>>, <<>>, NoKw)
    /\ ret' = Return(None)
    /\ UNCHANGED <<registered, nextId, collection, regLog, parked>>

\* H.tuples(collection)
DoTuples(h) ==
    /\ last' = Called("tuples", h, <<collection>>, NoKw)
    /\ ret' = tuples(header(h), <<collection>>, NoKw)
    /\ UNCHANGED <<registered, nextId, collection, regLog, clock, parked>>

\* the server turns from the request it serves to the other one: the calls
\* that follow are made on the container of that request
Switch ==
    /\ last' = Called("switch", <<>>, <<>>, NoKw)
    /\ ret' = Return(None)
    /\ collection' = parked
    /\ parked' = collection
    /\ UNCHANGED <<registered, nextId, regLog, clock>>

\* get_header(name, raiseError) entering a name it does not find into _headers
Lookup_caching(name, raiseError) ==
    /\ last' = Called("get_header", name, <<raiseError>>, NoKw)
    /\ ret' = get_header(headers, name, raiseError)
    /\ IF get_header(headers, name, FALSE).value = None /\ Len(regLog) < MaxRegs
       THEN /\ registered' = (lower(name) :> NewInstance(nextId, "HTTPHeader", name, "general"))
                                @@ registered
            /\ nextId' = nextId + 1
            /\ regLog' = Append(regLog, name)
       ELSE UNCHANGED <<registered, nextId, regLog>>
    /\ UNCHANGED <<collection, clock, parked>>

\* get_header(name, raiseError)
Lookup(name, raiseError) ==
    /\ last' = Called("get_header", name, <<raiseError>>, NoKw)
    /\ ret' = get_header(headers, name, raiseError)
    /\ UNCHANGED <<registered, nextId, collection, regLog, clock, parked>>

\* list_headers(general, request, response, entity)
ListHeaders(general, request, response, entity) ==
    /\ last' = Called("list_headers", <<>>, <<general, request, response, entity>>, NoKw)
    /\ ret' = list_headers(headers, general, request, response, entity)
    /\ UNCHANGED <<registered, nextId, collection, regLog, clock, parked>>

\* normalize_headers(collection, strict)
Normalize(strict) ==
    \E o \in {normalize_headers(headers, collection, strict)} :
        /\ last' = Called("normalize_headers", <<>>, <<Bool(strict)>>, NoKw)
        /\ ret' = [exc |-> o.exc, value |-> o.value]
        /\ collection' = o.collection
        /\ UNCHANGED <<registered, nextId, regLog, clock, parked>>

\* the state once the module is loaded, with a container still empty
Start(coll) ==
    /\ registered = EmptyRegistry
    /\ nextId = Len(Declarations) + 1
    /\ collection = coll
    /\ last = [op |-> "import", self |-> <<>>, args |-> <<>>, kwargs |-> NoKw,
               before |-> coll]
    /\ ret = Return(None)
    /\ regLog = <<>>
    /\ clock = StartTime
    /\ parked = List(<<>>)

----------------------------------------------------------------------------
(* The headers, field-names and field-values the specifications draw on.   *)

ETag_ == <<"e","t","a","g">>
Via_ == <<"v","i","a">>
ContentLength_ == <<"c","o","n","t","e","n","t","-","l","e","n","g","t","h">>
SetCookie_ == <<"s","e","t","-","c","o","o","k","i","e">>
Warning_ == <<"w","a","r","n","i","n","g">>
WWWAuthenticate_ == <<"w","w","w","-","a","u","t","h","e","n","t","i","c","a","t","e">>

\* field-values: plain and padded with whitespace
Values == {<<"a">>, <<" ", "a">>}

\* field-values, the empty one among them
ValuesOrEmpty == Values \cup {<<>>}

\* one to MaxArgs literal values
ArgLists(vals) == UNION {[1..n -> {Str(v) : v \in vals}] : n \in 1..MaxArgs}

\* the keys the server sets in the environ
EnvironKeys ==
    {<<"H","T","T","P","_","E","T","A","G">>,
     <<"H","T","T","P","_","C","O","N","T","E","N","T","_","L","E","N","G","T","H">>,
     <<"C","O","N","T","E","N","T","_","L","E","N","G","T","H">>}

----------------------------------------------------------------------------
(* Spec: a program that reads, updates and deletes single-value and        *)
(* multi-value headers in a response_headers list or in an environ.        *)

\* the accessors the program uses on a response_headers list and on an environ
Accessors(coll) == IF coll.t = "list" THEN {ETag_, Via_} ELSE {ETag_, ContentLength_}

\* the field-names the application writes into the list
EntryNames == {<<"E","T","a","g">>, <<"e","t","A","G">>, <<"V","i","a">>}

\* the values the program sets: no empty entry is written into a list
UpdateValues(coll) == IF coll.t = "list" THEN Values ELSE ValuesOrEmpty

\* containers a value is copied from
Sources ==
    {List(<<>>), List(<< <<<<"E","T","a","g">>, <<"a">>>> >>), Dict(BaseEnviron)}

Init == \E coll \in {List(<<>>), Dict(BaseEnviron)} : Start(coll)

Next ==
    \/ \E name \in EntryNames, v \in Values : AppendEntry(name, v)
    \/ \E key \in EnvironKeys, v \in ValuesOrEmpty : SetEnviron(key, v)
    \/ \E h \in Accessors(collection) : Read(h)
    \/ \E h \in Accessors(collection), v \in UpdateValues(collection) :
            DoUpdate(h, <<Str(v)>>, NoKw)
    \/ \E h \in Accessors(collection), src \in Sources : DoUpdate(h, <<src>>, NoKw)
    \/ \E h \in Accessors(collection) : DoDelete(h)

Spec == Init /\ [][Next]_vars

----------------------------------------------------------------------------
(* SpecCall: one call of an accessor, given a container the server or the *)
(* application has built, literal values, keyword arguments, or a mix.     *)

\* every list of at most n entries
ListsUpTo(entries, n) == UNION {[1..k -> entries] : k \in 0..n}

\* every environ that sets some of the keys
Environs(keys, vals) ==
    UNION {{d @@ BaseEnviron : d \in [ks -> vals]} : ks \in SUBSET keys}

CallEntries == {<<"e","t","A","G">>, <<"V","i","a">>} \X ValuesOrEmpty

CallContainers ==
    {List(l) : l \in ListsUpTo(CallEntries, MaxLen)}
        \cup {Dict(d) : d \in Environs(EnvironKeys, {<<" ", "a">>})}

CallAccessors == {ETag_, Via_, ContentLength_}

\* the positional arguments of a call: none, the container, literal values, or both
CallArgs(coll) ==
    {<<>>, <<coll>>, <<coll, Str(<<"a">>)>>, <<Str(<<"a">>), coll>>}
        \cup ArgLists(Values)

\* the keyword arguments of a call
CallKwargs == {NoKw, [charset |-> Str(<<"a">>)]}

InitCall == \E coll \in CallContainers : Start(coll)

NextCall ==
    \E h \in CallAccessors, args \in CallArgs(collection), kwargs \in CallKwargs :
        /\ last.op = "import"
        /\ DoCall(h, args, kwargs)

SpecCall == InitCall /\ [][NextCall]_vars

----------------------------------------------------------------------------
(* SpecEntry: a program that extends a response_headers list with the      *)
(* tuples of a multi-entry header, and reads, updates and deletes it.      *)

\* field-values that differ once stripped
EntryValues == {<<"a">>, <<" ", "b">>}

MultiEntryAccessors == {SetCookie_, Warning_, WWWAuthenticate_}

\* the arguments the program gives to update: literal values, none, a container
UpdateArgs == ArgLists(EntryValues) \cup {<<>>, <<List(<<>>)>>}

InitEntry == \E coll \in {List(<<>>), Dict(BaseEnviron)} : Start(coll)

NextEntry ==
    \/ \E v \in EntryValues : AppendEntry(<<"W","a","r","n","i","n","g">>, v)
    \/ \E v \in EntryValues :
            SetEnviron(<<"H","T","T","P","_","W","A","R","N","I","N","G">>, v)
    \/ \E args \in ArgLists(EntryValues) : DoExtend(SetCookie_, args)
    \/ \E h \in {SetCookie_, Warning_} : Read(h)
    \/ \E h \in MultiEntryAccessors, args \in UpdateArgs, kwargs \in {NoKw, [path |-> Str(<<"a">>)]} :
            DoUpdate(h, args, kwargs)
    \/ \E h \in {SetCookie_, Warning_} : DoDelete(h)

SpecEntry == InitEntry /\ [][NextEntry]_vars

----------------------------------------------------------------------------
(* SpecReg: registrations made after the module was loaded.                *)

\* the field-names registered: one the module declares, two it does not
RegNames == {<<"E","T","a","g">>, <<"X","-","A">>, <<"X","_","A">>}

RegClasses == {"ETag", "SingleValueHeader"}

RegCategories == {NoCategory, "general", "response"}

InitReg == Start(List(<<>>))

NextReg ==
    \E cls \in RegClasses, name \in RegNames, category \in RegCategories :
        Register(cls, name, category)

SpecReg == InitReg /\ [][NextReg]_vars

----------------------------------------------------------------------------
(* SpecLookup: get_header and list_headers on the loaded registry and on   *)
(* what is registered after it.                                            *)

\* the names looked up: registered names and their variants in case, in
\* underscores and in surrounding whitespace, and a name never registered
LookupNames ==
    RegNames \cup
    {<<"e","t","a","g">>, <<" ","E","T","A","G">>, <<"x","-","a">>, <<"x","_","a">>,
     <<"c","o","n","t","e","n","t","_","l","e","n","g","t","h">>,
     <<"C","O","N","T","E","N","T","-","L","E","N","G","T","H">>,
     <<"X","-","B">>}

InitLookup == Start(List(<<>>))

NextLookup ==
    \/ \E name \in RegNames, category \in {NoCategory, "entity"} :
            Register("SingleValueHeader", name, category)
    \/ \E name \in LookupNames, raiseError \in BOOLEAN :
            Lookup(name, raiseError)
    \/ \E general, request, response, entity \in BOOLEAN :
            ListHeaders(general, request, response, entity)

SpecLookup == InitLookup /\ [][NextLookup]_vars

----------------------------------------------------------------------------
(* SpecCompose: one call of compose with keyword arguments.                *)

CacheControl_ == <<"c","a","c","h","e","-","c","o","n","t","r","o","l">>
ContentType_ == <<"c","o","n","t","e","n","t","-","t","y","p","e">>
ContentDisposition_ == <<"c","o","n","t","e","n","t","-","d","i","s","p","o","s","i","t","i","o","n">>

\* a keyword the caller leaves out
Absent == [t |-> "absent"]

\* the keyword arguments of a call: the keywords the caller does not leave out
Keywords(choice) == [k \in {k \in DOMAIN choice : choice[k] # Absent} |-> choice[k]]

\* what a caller passes for a flag
Flags == {Absent, None, True, False}

\* what a caller passes for max_age and s_maxage
Ages == {Absent} \cup {IntVal(n) : n \in {-1, 0, 10, 3600}}

CacheControlChoices ==
    [public : Flags, private : Flags, no_cache : Flags, no_store : {Absent, True},
     max_age : Ages, s_maxage : Ages, no_transform : {Absent, True},
     community : {Absent, Str(<<"U","C","I">>)}]

\* filenames with directory separators and quotes
Filenames == UNION {[1..n -> {"a", "/", "\\", "\""}] : n \in 0..MaxName}

ContentDispositionChoices ==
    [attachment : {Absent, True, False}, inline : {Absent, True, False},
     filename : {Absent} \cup {Str(f) : f \in Filenames}]

ContentTypeChoices ==
    [major : {Absent, Str(<<"a">>)}, minor : {Absent, Str(<<"h","t","m","l">>), Str(<<"a">>)},
     charset : {Absent, Str(<<"a">>)}]

InitCompose == Start(List(<<>>))

NextCompose ==
    \/ /\ last.op = "import"
       /\ \E choice \in CacheControlChoices : DoCompose(CacheControl_, Keywords(choice))
    \/ /\ last.op = "import"
       /\ \E choice \in ContentDispositionChoices : DoCompose(ContentDisposition_, Keywords(choice))
    \/ /\ last.op = "import"
       /\ \E choice \in ContentTypeChoices : DoCompose(ContentType_, Keywords(choice))

SpecCompose == InitCompose /\ [][NextCompose]_vars

----------------------------------------------------------------------------
(* SpecEnviron: Content-Type and Content-Length read from an environ that  *)
(* sets some of their HTTP_ keys and some of their CGI keys.               *)

\* the keys the server sets for the two headers, with the prefix and without
ContentKeys ==
    {<<"H","T","T","P","_","C","O","N","T","E","N","T","_","T","Y","P","E">>, <<"C","O","N","T","E","N","T","_","T","Y","P","E">>,
     <<"H","T","T","P","_","C","O","N","T","E","N","T","_","L","E","N","G","T","H">>, <<"C","O","N","T","E","N","T","_","L","E","N","G","T","H">>}

\* the values the server sets: padded, plain and empty
ContentValues == {<<" ", "a">>, <<"b">>, <<>>}

InitEnviron == \E d \in Environs(ContentKeys, ContentValues) : Start(Dict(d))

NextEnviron ==
    \E h \in {ContentType_, ContentLength_, ETag_} :
        /\ last.op = "import"
        /\ Read(h)

SpecEnviron == InitEnviron /\ [][NextEnviron]_vars

----------------------------------------------------------------------------
(* SpecApply: a program that applies Cache-Control to a container that may *)
(* already hold Expires entries, while time passes.                        *)

\* the keyword arguments of CacheControl.apply
ApplyChoices ==
    [private : {Absent, True}, no_cache : {Absent, True},
     max_age : {Absent} \cup {IntVal(n) : n \in {0, 3600}}]

\* the field-names the application appends
ApplyNames == {<<"E","x","p","i","r","e","s">>, <<"E","X","P","I","R","E","S">>}

InitApply == \E coll \in {List(<<>>), Dict(BaseEnviron)} : Start(coll)

NextApply ==
    \/ Tick
    \/ \E name \in ApplyNames : AppendEntry(name, <<"a">>)
    \/ SetEnviron(<<"H","T","T","P","_","E","X","P","I","R","E","S">>, <<"a">>)
    \/ \E choice \in ApplyChoices : DoApply(CacheControl_, Keywords(choice))

SpecApply == InitApply /\ [][NextApply]_vars

----------------------------------------------------------------------------
(* A response list is normalized.                                          *)

\* the field-names of the list: two general headers, a request header, a
\* response header in lower case, an entity header and a name never registered
NormalizeNames ==
    {<<"V","i","a">>, <<"D","a","t","e">>, <<"H","o","s","t">>, <<"e","t","a","g">>,
     <<"A","l","l","o","w">>, <<"a","_","b">>}

\* the entries of a list with these names; each value tells the place of its entry
Entries(names) == [i \in 1..Len(names) |-> <<names[i], <<Digits[i + 1]>>>>]

\* a list of an entity, a general, a request, a response and a general header
MixedList ==
    Entries(<< <<"A","l","l","o","w">>, <<"V","i","a">>, <<"H","o","s","t">>,
               <<"e","t","a","g">>, <<"D","a","t","e">> >>)

NormalizeLists ==
    {Entries(names) : names \in UNION {[1..n -> NormalizeNames] : n \in 0..MaxEntries}}
        \cup {MixedList}

InitNormalize == \E l \in NormalizeLists : Start(List(l))

NextNormalize == \E strict \in BOOLEAN : Normalize(strict)

SpecNormalize == InitNormalize /\ [][NextNormalize]_vars

----------------------------------------------------------------------------
(* Dates are composed and parsed, and If-Modified-Since is read.           *)

Date_ == <<"d","a","t","e">>
IfModifiedSince_ == <<"i","f","-","m","o","d","i","f","i","e","d","-","s","i","n","c","e">>

\* the times composed: the epoch, its first second, the last second of a
\* leap day and the seconds around the time the module was loaded
ComposeTimes == {0, 1, 951868799} \cup (StartTime - 1)..(StartTime + MaxTicks)

\* the times a client sends: the epoch, the second after the module was
\* loaded and a minute after it
SentTimes == {0, StartTime + 1, StartTime + 60}

\* the values of If-Modified-Since: dates, and one value that is no date
SentValues == {formatdate(t) : t \in SentTimes} \cup {<<"a">>}

InitDate == \E coll \in {List(<<>>), Dict(BaseEnviron)} : Start(coll)

NextDate ==
    \/ Tick
    \/ \E t \in ComposeTimes : DoCompose(Date_, [time |-> IntVal(t)])
    \/ TimeOfComposed(Date_)
    \/ \E v \in SentValues :
            AppendEntry(<<"I","f","-","M","o","d","i","f","i","e","d","-","S","i","n","c","e">>, v)
    \/ \E v \in SentValues :
            SetEnviron(HTTP_ \o <<"I","F","_","M","O","D","I","F","I","E","D","_","S","I","N","C","E">>, v)
    \/ DoTime(IfModifiedSince_, <<collection>>, NoKw)

SpecDate == InitDate /\ [][NextDate]_vars

----------------------------------------------------------------------------
(* Content-Disposition is applied to containers that hold a Content-Type.  *)

\* the filenames passed: the types of their extensions are specific, generic
\* and unknown
AppliedFilenames == {<<"d","/","r",".","p","d","f">>, <<"b",".","a">>, <<"b">>}

DispositionChoices ==
    [inline : {Absent, True},
     filename : {Absent, Str(<<>>)} \cup {Str(f) : f \in AppliedFilenames}]

\* the Content-Type values a container holds: generic, specific and empty
HeldTypes == {UNKNOWN, <<"t","e","x","t","/","h","t","m","l">>, <<>>}

InitDisposition == \E coll \in {List(<<>>), Dict(BaseEnviron)} : Start(coll)

NextDisposition ==
    \/ \E v \in HeldTypes : AppendEntry(<<"C","o","n","t","e","n","t","-","T","y","p","e">>, v)
    \/ \E key \in {HTTP_ \o <<"C","O","N","T","E","N","T","_","T","Y","P","E">>, <<"C","O","N","T","E","N","T","_","T","Y","P","E">>}, v \in HeldTypes : SetEnviron(key, v)
    \/ \E choice \in DispositionChoices : DoApply(ContentDisposition_, Keywords(choice))

SpecDisposition == InitDisposition /\ [][NextDisposition]_vars

----------------------------------------------------------------------------
(* Cache-Control and Content-Disposition are applied with keyword          *)
(* arguments that compose and with ones that do not.                       *)

\* the containers the calls start from
ValidateContainers ==
    {List(<<>>),
     List(<< <<<<"E","x","p","i","r","e","s">>, <<"a">>>>, <<<<"C","o","n","t","e","n","t","-","T","y","p","e">>, UNKNOWN>> >>),
     Dict(BaseEnviron)}

\* keyword arguments of CacheControl.apply: flags that exclude one another,
\* an age, and an extension no one registered
ValidateCacheControl ==
    [private : {Absent, True}, no_cache : {Absent, True},
     max_age : {Absent, IntVal(3600)}, community : {Absent, Str(<<"U","C","I">>)}]

\* keyword arguments of ContentDisposition.apply: flags that exclude one
\* another, a filename and a filename with a quote
ValidateContentDisposition ==
    [inline : {Absent, True}, attachment : {Absent, True},
     filename : {Absent, Str(<<"d","/","r",".","p","d","f">>), Str(<<"r","\"",".","p","d","f">>)}]

InitValidate == \E coll \in ValidateContainers : Start(coll)

NextValidate ==
    \/ \E choice \in ValidateCacheControl : DoApply(CacheControl_, Keywords(choice))
    \/ \E choice \in ValidateContentDisposition :
            DoApply(ContentDisposition_, Keywords(choice))

SpecValidate == InitValidate /\ [][NextValidate]_vars

----------------------------------------------------------------------------
(* Two requests are served in turn, each with a container of its own.      *)

\* the field-name the applications append, in lower case
SharedNames == {<<"e","t","a","g">>}

\* the accessor both requests call
SharedAccessors == {ETag_}

InitShared == \E coll \in {List(<<>>), Dict(BaseEnviron)} : Start(coll)

NextShared ==
    \/ Switch
    \/ \E name \in SharedNames : AppendEntry(name, <<"a">>)
    \/ SetEnviron(<<"H","T","T","P","_","E","T","A","G">>, <<"a">>)
    \/ \E h \in SharedAccessors : Read(h)
    \/ \E h \in SharedAccessors : DoUpdate(h, <<Str(<<"a">>)>>, NoKw)
    \/ \E h \in SharedAccessors : DoDelete(h)
    \/ \E h \in SharedAccessors : DoTuples(h)
    \/ DoApply(CacheControl_, [private |-> True])
    \/ \E name \in {<<"E","T","a","g">>, <<"x","-","a">>} : Lookup(name, FALSE)
    \/ ListHeaders(TRUE, TRUE, TRUE, TRUE)
    \/ Normalize(FALSE)

SpecShared == InitShared /\ [][NextShared]_vars

----------------------------------------------------------------------------
(* What the claims speak of.                                               *)

\* the accessor the most recent call was made on
Self == header(last.self)

\* H(coll)
ReadOf(H, coll) == Call(H, <<coll>>, NoKw)

\* the positions of a list whose field-name is that of H, in any capitalization
Matching(H, l) == {i \in 1..Len(l) : lower(l[i][1]) = lower(H.name)}

\* the number of entries of a container that belong to H
EntriesOf(H, coll) ==
    IF coll.t = "list" THEN Cardinality(Matching(H, coll.l))
    ELSE IF H.environ_name \in DOMAIN coll.d THEN 1 ELSE 0

\* the container holds exactly one entry for H, under the name H.name or its HTTP_ key
ExactlyOneNamed(H, coll) ==
    /\ EntriesOf(H, coll) = 1
    /\ coll.t = "list" => \A i \in Matching(H, coll.l) : coll.l[i][1] = H.name

\* the entries of a list that do not belong to H, in order
Others(H, l) == LET NotOfH(e) == lower(e[1]) # lower(H.name) IN SelectSeq(l, NotOfH)

\* the most recent call was H.update(C, v) with one literal string v, H single-valued
UpdatedSingleValue ==
    /\ last.op = "update"
    /\ isinstance(Self, "SingleValueHeader")
    /\ Len(last.args) = 1
    /\ last.args[1].t = "str"

\* ContentType and ContentLength read an empty HTTP_ entry of an environ as missing
ReadAsMissing(H, coll, v) ==
    /\ isinstance(H, "SingleValueCGIHeader")
    /\ coll.t = "dict"
    /\ Len(v) = 0

----------------------------------------------------------------------------
(* C1 to C10.                                                              *)

UpdatedList ==
    /\ last.op = "update"
    /\ last.before.t = "list"
    /\ \/ isinstance(Self, "SingleValueHeader")
       \/ isinstance(Self, "MultiValueHeader")
    /\ ret.exc = NoExc

\* C6: H.update(C, ...) on a response list, with computed value x: if C had
\* entries for H, the position of the first now holds (H.name, x) and no other
\* entry for H remains; if it had none, (H.name, x) is appended at the end; the
\* other entries stay as they were, and the call returns x.
C6_UpdateCollapsesInPlace ==
    UpdatedList =>
        LET l == last.before.l
            m == Matching(Self, l)
            x == Call(Self, last.args, last.kwargs)
            entry == <<Self.name, x.value.s>>
        IN  /\ ret = x
            /\ x.value # None
            /\ IF m = {}
               THEN collection.l = Append(l, entry)
               ELSE LET first == CHOOSE i \in m : \A j \in m : i <= j
                    IN  /\ collection.l[first] = entry
                        /\ Matching(Self, collection.l) = {first}
                        /\ Others(Self, collection.l) = Others(Self, l)

\* C6: the list held three entries for H, written in different capitalizations
C6_Witness ==
    /\ UpdatedList
    /\ Cardinality(Matching(Self, last.before.l)) = 3
    /\ \E i, j \in Matching(Self, last.before.l) :
            last.before.l[i][1] # last.before.l[j][1]

\* C7: when the value H.update(C, ...) computes is absent, update removes
\* every entry for H from C and raises nothing.
C7_AbsentValueDeletes ==
    (last.op = "update" /\ Call(Self, last.args, last.kwargs) = Return(None)) =>
        /\ ret.exc = NoExc
        /\ EntriesOf(Self, collection) = 0

\* C8: H.delete(C) removes every entry for H, changes nothing when there is
\* none, returns H, and afterwards H.read(C) is absent.
C8_DeleteThenAbsent ==
    last.op = "delete" =>
        /\ ret = Return(Instance(Self.id))
        /\ EntriesOf(Self, collection) = 0
        /\ EntriesOf(Self, last.before) = 0 => collection = last.before
        /\ ReadOf(Self, collection) = Return(None)

\* the values a list stores for H, in order
StoredFor(H, l) ==
    LET OfH(e) == lower(e[1]) = lower(H.name)
        es == SelectSeq(l, OfH)
    IN  [i \in 1..Len(es) |-> es[i][2]]

\* the most recent call was H(C) on a response_headers list C
ReadList(cls) ==
    /\ last.op = "call"
    /\ isinstance(Self, cls)
    /\ last.args = <<collection>>
    /\ last.kwargs = NoKw
    /\ collection.t = "list"

\* the most recent call was H(v1, ..., vn) on literal strings
ReadValues(cls) ==
    /\ last.op = "call"
    /\ isinstance(Self, cls)
    /\ Len(last.args) > 0
    /\ \A i \in 1..Len(last.args) : last.args[i].t = "str"
    /\ last.kwargs = NoKw

\* C2, as the specification states it: a multi-value header read from a list
\* that stores v1..vn as n entries gives what it gives read from a list that
\* stores the one entry ", ".join(v1..vn).
C2_EntriesReadAsJoined ==
    (ReadList("MultiValueHeader") /\ EntriesOf(Self, collection) > 0) =>
        LET vs == StoredFor(Self, collection.l)
        IN  ret = ReadOf(Self, List(<< <<Self.name, join(<<",", " ">>, vs)>> >>))

\* no value is empty or carries leading or trailing whitespace
Trimmed(vs) == \A i \in 1..Len(vs) : Len(vs[i]) > 0 /\ strip(vs[i]) = vs[i]

\* C2, amended: the two reads agree when no value is empty or carries leading
\* or trailing whitespace (each of n entries is stripped, of a joined entry
\* only the two ends).
C2_TrimmedEntriesReadAsJoined ==
    (ReadList("MultiValueHeader") /\ EntriesOf(Self, collection) > 0) =>
        LET vs == StoredFor(Self, collection.l)
        IN  Trimmed(vs) =>
                ret = ReadOf(Self, List(<< <<Self.name, join(<<",", " ">>, vs)>> >>))

\* C2: several trimmed entries of a multi-value header were read
C2_Witness ==
    /\ ReadList("MultiValueHeader")
    /\ EntriesOf(Self, collection) > 1
    /\ Trimmed(StoredFor(Self, collection.l))
    /\ ret.exc = NoExc

SuppliesCollection == \E i \in 1..Len(last.args) : last.args[i].t \in {"list", "dict"}
SuppliesValues == \E i \in 1..Len(last.args) : last.args[i].t = "str"
SuppliesParams == DOMAIN last.kwargs # {}

\* C9: a call that mixes a collection, literal values and named parameters fails.
C9_MixedCallFails ==
    (/\ last.op = "call"
     /\ \/ SuppliesCollection /\ SuppliesValues
        \/ SuppliesCollection /\ SuppliesParams
        \/ SuppliesValues /\ SuppliesParams) =>
        ret.exc = "AssertionError"

ExtendedFresh ==
    /\ last.op = "extend"
    /\ isinstance(Self, "MultiEntryHeader")
    /\ EntriesOf(Self, last.before) = 0

\* C4, as the specification states it: the tuples are one (H.name, value) pair
\* per value, and once they are appended H.read(C) is the sequence of the values.
C4_TuplesReadBack ==
    ExtendedFresh =>
        /\ ret = Return(List([i \in 1..Len(last.args) |-> <<Self.name, last.args[i].s>>]))
        /\ ReadOf(Self, collection) =
                Return(StrList([i \in 1..Len(last.args) |-> last.args[i].s]))

\* C4, amended: the tuples are one (H.name, value) pair per value, each value
\* stripped of surrounding whitespace, and once they are appended H.read(C) is
\* the sequence of the stripped values in insertion order, never a joined string.
C4_TuplesReadBackStripped ==
    ExtendedFresh =>
        /\ ret = Return(List([i \in 1..Len(last.args) |->
                                <<Self.name, strip(last.args[i].s)>>]))
        /\ ReadOf(Self, collection) =
                Return(StrList([i \in 1..Len(last.args) |-> strip(last.args[i].s)]))

\* C4: two different values were appended to a list that holds another header
C4_Witness ==
    /\ ExtendedFresh
    /\ Len(last.args) = 2
    /\ strip(last.args[1].s) # strip(last.args[2].s)
    /\ Len(last.before.l) > 0
    /\ ret.exc = NoExc

\* C10: registering a header twice with the same name, category and class
\* raises nothing and returns the same instance both times, the one the
\* registry holds.
C10_SameInstanceTwice ==
    \A i, j \in 1..Len(regLog) :
        (/\ i < j
         /\ regLog[i].fresh
         /\ regLog[j].cls = regLog[i].cls
         /\ regLog[j].name = regLog[i].name
         /\ regLog[j].category = regLog[i].category) =>
            /\ regLog[i].exc = NoExc
            /\ regLog[j].exc = NoExc
            /\ regLog[i].value = regLog[j].value
            /\ regLog[j].value = Instance(header(lower(regLog[j].name)).id)

\* the instance get_header finds for a name in the registry as it is
Existing(name) == get_header(headers, name, FALSE).value

\* the category a registration asks for, the default resolved
Requested(category) == IF category = NoCategory THEN "general" ELSE category

\* the registration that created the entry found for a name was made with
\* this name, class and category argument
SameAsCreated(name, cls, category) ==
    LET old == found_header(headers, name)
    IN  /\ old.name = name
        /\ old.cls = cls
        /\ IF old.id <= Len(Declarations)
           THEN category = Declarations[old.id].category
           ELSE \E i \in 1..Len(regLog) :
                    /\ regLog[i].fresh
                    /\ regLog[i].name = name
                    /\ regLog[i].category = category

\* C11: a registration of a name that is already registered raises
\* AssertionError when the category or the class differs from the entry's,
\* and returns the existing instance when name, class and category are those
\* of the registration that created the entry, the category left at its
\* default on both included; the registry is the same after either.
C11_DuplicateRegistration ==
    [][last'.op = "register" =>
        LET name == last'.self
            cls == last'.args[1]
            category == last'.args[2]
        IN  Existing(name) # None =>
                LET old == found_header(headers, name)
                IN  /\ registered' = registered
                    /\ (old.cls # cls \/ old.category # Requested(category)) =>
                            ret'.exc = "AssertionError"
                    /\ SameAsCreated(name, cls, category) =>
                            ret' = Return(Existing(name))]_vars

\* str.strip().lower().replace("_", "-"): the canonical form of a field-name
Canonical(name) == replace(lower(strip(name)), "_", "-")

\* C12: get_header(name) returns every registered instance for its own name
\* and for every variant of it in case, underscores and surrounding
\* whitespace; for a name no instance is registered under it raises
\* AssertionError, or returns None when raiseError is false.
C12_LookupByCanonicalName ==
    last.op = "get_header" =>
        IF \E k \in DOMAIN headers : Canonical(headers[k].name) = Canonical(last.self)
        THEN \A k \in DOMAIN headers :
                Canonical(headers[k].name) = Canonical(last.self) =>
                    ret = Return(Instance(headers[k].id))
        ELSE ret = IF last.args[1] THEN Raise("AssertionError") ELSE Return(None)

\* the instance with an identity
InstanceOf(id) == headers[CHOOSE k \in DOMAIN headers : headers[k].id = id]

\* C13: list_headers returns exactly the registered instances whose category
\* is asked for, each once, ordered by sort_order and then by name.
C13_ListByCategory ==
    last.op = "list_headers" =>
        LET asked == {c \in DOMAIN SortOrder :
                        \/ c = "general" /\ last.args[1]
                        \/ c = "request" /\ last.args[2]
                        \/ c = "response" /\ last.args[3]
                        \/ c = "entity" /\ last.args[4]}
            wanted == {Instance(headers[k].id) : k \in {k \in DOMAIN headers :
                                                        headers[k].category \in asked}}
        IN  /\ ret.exc = NoExc
            /\ ret.value.t = "list"
            /\ {ret.value.l[i] : i \in 1..Len(ret.value.l)} = wanted
            /\ Len(ret.value.l) = Cardinality(wanted)
            /\ \A i, j \in 1..Len(ret.value.l) :
                    i < j => ~HTTPHeader_lt(InstanceOf(ret.value.l[j].id),
                                            InstanceOf(ret.value.l[i].id))

\* the last call was CacheControl.compose(**kwargs)
ComposedCacheControl == last.op = "compose" /\ last.self = CacheControl_

\* the keyword argument is given and is true
Given(key) == key \in DOMAIN last.kwargs /\ truthy(last.kwargs[key])

\* C15 as stated: CacheControl.compose with private=True and a max_age that is
\* set raises AssertionError and produces no value.
C15_PrivateExcludesMaxAge ==
    (/\ ComposedCacheControl
     /\ Given("private")
     /\ "max_age" \in DOMAIN last.kwargs) => ret = Raise("AssertionError")

\* C15: CacheControl.compose with private=True and a non-zero s_maxage raises
\* AssertionError and produces no value; with private=True and a max_age of
\* zero or more as its only arguments it composes "private" and "max-age=n".
C15_PrivateExcludesSMaxage ==
    ComposedCacheControl =>
        /\ (Given("private") /\ Given("s_maxage")) => ret = Raise("AssertionError")
        /\ (/\ DOMAIN last.kwargs = {"private", "max_age"}
            /\ Given("private")
            /\ last.kwargs.max_age.n >= 0) =>
                ret = Return(StrList(<<<<"p","r","i","v","a","t","e">>,
                                       <<"m","a","x","-","a","g","e","=">> \o format_d(last.kwargs.max_age.n)>>))

C15_Witness ==
    /\ ComposedCacheControl
    /\ last.kwargs = [private |-> True, s_maxage |-> IntVal(10)]
    /\ ret = Raise("AssertionError")

\* the mechanism tokens of Cache-Control
Mechanisms == {<<"p","u","b","l","i","c">>, <<"p","r","i","v","a","t","e">>, <<"n","o","-","c","a","c","h","e">>}

\* C16: CacheControl.compose raises AssertionError when more than one of
\* public, private and no_cache is true; with none of them given a value
\* composed starts with "public", and with no argument at all "public" is
\* composed; every value composed holds one mechanism token, as its first.
C16_OneMechanism ==
    ComposedCacheControl =>
        /\ Cardinality({k \in {"public", "private", "no_cache"} : Given(k)}) > 1 =>
                ret = Raise("AssertionError")
        /\ DOMAIN last.kwargs = {} => ret = Return(StrList(<<<<"p","u","b","l","i","c">>>>))
        /\ (/\ DOMAIN last.kwargs \cap {"public", "private", "no_cache"} = {}
            /\ ret.exc = NoExc) => ret.value.strs[1] = <<"p","u","b","l","i","c">>
        /\ ret.exc = NoExc =>
                /\ Len(ret.value.strs) > 0
                /\ {i \in 1..Len(ret.value.strs) : ret.value.strs[i] \in Mechanisms} = {1}

C16_Witness ==
    /\ ComposedCacheControl
    /\ last.kwargs = [public |-> True, private |-> True]
    /\ ret = Raise("AssertionError")

\* C18: CacheControl.compose with a negative max_age or s_maxage raises
\* AssertionError and composes no token with a negative number.
C18_NegativeAgeFails ==
    (/\ ComposedCacheControl
     /\ \E k \in {"max_age", "s_maxage"} :
            k \in DOMAIN last.kwargs /\ last.kwargs[k].n < 0) =>
        ret = Raise("AssertionError")

\* the last call was ContentDisposition.compose(**kwargs)
ComposedContentDisposition == last.op = "compose" /\ last.self = ContentDisposition_

\* the characters of a str
Chars(str_) == {str_[i] : i \in 1..Len(str_)}

\* C20: ContentDisposition.compose raises AssertionError when attachment and
\* inline are both true and when filename holds a quote; every other call
\* composes one value that starts with "inline" when inline is true and with
\* "attachment" otherwise, followed for a filename that is not empty by the
\* parameter filename="base", base being the end of filename and holding
\* neither "/" nor "\".
C20_DispositionAndBasename ==
    ComposedContentDisposition =>
        LET quoted == /\ "filename" \in DOMAIN last.kwargs
                      /\ "\"" \in Chars(last.kwargs.filename.s)
            disposition == IF Given("inline") THEN <<"i","n","l","i","n","e">> ELSE <<"a","t","t","a","c","h","m","e","n","t">>
        IN  IF (Given("attachment") /\ Given("inline")) \/ quoted
            THEN ret = Raise("AssertionError")
            ELSE /\ ret.exc = NoExc
                 /\ Len(ret.value.strs) = 1
                 /\ Chars(ret.value.strs[1]) \cap {"/", "\\"} = {}
                 /\ IF Given("filename")
                    THEN \E k \in 0..Len(last.kwargs.filename.s) :
                            ret.value.strs[1] =
                                disposition \o <<";"," ","f","i","l","e","n","a","m","e","=","\"">>
                                    \o SubSeq(last.kwargs.filename.s, k + 1,
                                              Len(last.kwargs.filename.s))
                                    \o <<"\"">>
                    ELSE ret.value.strs[1] = disposition

C20_Witness ==
    /\ ComposedContentDisposition
    /\ last.kwargs = [inline |-> True, filename |-> Str(<<"/", "\\", "a">>)]
    /\ ret = Return(StrList(<<<<"i","n","l","i","n","e",";"," ","f","i","l","e","n","a","m","e","=","\"","a","\"">>>>))

\* C19: ContentType and ContentLength read from an environ return the
\* formatted value of the HTTP_ key when the environ sets it, otherwise the
\* formatted value of the key without the prefix when the environ sets that,
\* and None when it sets neither.
C19_LegacyFallback ==
    (/\ last.op = "call"
     /\ isinstance(Self, "SingleValueCGIHeader")
     /\ last.args = <<collection>>
     /\ collection.t = "dict") =>
        LET primary == Self.environ_name
            legacy == SubSeq(primary, 6, Len(primary))
        IN  IF primary \in DOMAIN collection.d
            THEN ret = format(Self, <<Str(collection.d[primary])>>)
            ELSE IF legacy \in DOMAIN collection.d
            THEN ret = format(Self, <<Str(collection.d[legacy])>>)
            ELSE ret = Return(None)

\* the last call was CacheControl.apply(collection, **kwargs)
AppliedCacheControl == last.op = "apply" /\ last.self = CacheControl_

\* C14: CacheControl.apply(C, max_age=n) with no other argument and n of zero
\* or more leaves C with one Cache-Control entry "public, max-age=n" and one
\* Expires entry that spells the time n seconds from now, and returns n.
C14_MaxAgeSetsExpires ==
    (/\ AppliedCacheControl
     /\ DOMAIN last.kwargs = {"max_age"}
     /\ last.kwargs.max_age.n >= 0) =>
        /\ ret = Return(last.kwargs.max_age)
        /\ EntriesOf(Self, collection) = 1
        /\ ReadOf(Self, collection) =
                Return(Str(<<"p","u","b","l","i","c",","," ","m","a","x","-","a","g","e","=">> \o format_d(last.kwargs.max_age.n)))
        /\ EntriesOf(Expires, collection) = 1
        /\ ReadOf(Expires, collection) =
                Return(Str(formatdate(clock + last.kwargs.max_age.n)))

C14_Witness ==
    /\ AppliedCacheControl
    /\ last.kwargs = [max_age |-> IntVal(3600)]
    /\ clock = StartTime
    /\ ret = Return(IntVal(3600))
    /\ ReadOf(Expires, collection) = Return(Str(<<"S","u","n",","," ","0","4"," ","J","a","n"," ","1","9","7","0"," ","0","0",":","5","9",":","5","8"," ","G","M","T">>))
    /\ EntriesOf(Expires, last.before) > 0

\* C17: a CacheControl.apply(C, ...) with private or no_cache true that does
\* not fail leaves C with one Expires entry that spells the time now,
\* whatever Expires entries C held, and with one Cache-Control entry, the
\* value composed, and returns 0.
C17_PrivateExpiresNow ==
    (/\ AppliedCacheControl
     /\ Given("private") \/ Given("no_cache")
     /\ ret.exc = NoExc) =>
        /\ ret = Return(IntVal(0))
        /\ EntriesOf(Expires, collection) = 1
        /\ ReadOf(Expires, collection) = Return(Str(formatdate(clock)))
        /\ EntriesOf(Self, collection) = 1
        /\ ReadOf(Self, collection) = Call(Self, <<>>, last.kwargs)

C17_Witness ==
    /\ AppliedCacheControl
    /\ Given("private")
    /\ ret = Return(IntVal(0))
    /\ last.before.t = "list"
    /\ EntriesOf(Expires, last.before) = 2
    /\ EntriesOf(Expires, collection) = 1

\* the most recent call was H.update(C, ...) or H.delete(C)
Wrote == last.op \in {"update", "delete"}

\* the keys of an environ other than the one H is mapped to
OtherKeys(H, d) == DOMAIN d \ {H.environ_name}

\* C28: H.update(C, v) and H.delete(C) leave every entry of a response list
\* whose field-name is not H.name in any capitalization as it was, in name,
\* value and relative order; on an environ only the key H is mapped to
\* changes; every other accessor G reads from C what it read before the call.
C28_OthersUntouched ==
    Wrote =>
        /\ collection.t = last.before.t
        /\ collection.t = "list" =>
                Others(Self, collection.l) = Others(Self, last.before.l)
        /\ collection.t = "dict" =>
                /\ OtherKeys(Self, collection.d) = OtherKeys(Self, last.before.d)
                /\ \A k \in OtherKeys(Self, collection.d) :
                        collection.d[k] = last.before.d[k]
        /\ \A g \in Accessors(last.before) \ {last.self} :
                ReadOf(header(g), collection) = ReadOf(header(g), last.before)

\* H.delete(C) removed two entries of H from a list that holds another entry
C28_Witness ==
    /\ last.op = "delete"
    /\ last.before.t = "list"
    /\ Cardinality(Matching(Self, last.before.l)) = 2
    /\ Len(collection.l) = 1
    /\ \E i \in Matching(Self, last.before.l) : i < Len(last.before.l)

\* the most recent call was normalize_headers(C, strict) and it returned
Normalized == last.op = "normalize_headers" /\ ret.exc = NoExc

\* the registry holds a header for the field-name
Known(name) == get_header(headers, name, FALSE).value # None

\* the sort_order of the header registered for a field-name
CategoryOf(name) == found_header(headers, name).sort_order

\* a field-name in dash-separated title case
TitleCase(name) ==
    LET parts == split(replace(name, "_", "-"), "-")
    IN  join(<<"-">>, [i \in 1..Len(parts) |-> capitalize(parts[i])])

\* the canonical name of a field-name
CanonicalName(name) ==
    IF Known(name) THEN found_header(headers, name).name ELSE TitleCase(name)

\* the place in a list of the entry that holds the value v
Place(l, v) == CHOOSE i \in 1..Len(l) : l[i][2] = v

\* the known headers of the list stand in the order of their categories
KnownByCategory(l) ==
    \A i, j \in 1..Len(l) :
        i < j /\ Known(l[i][1]) /\ Known(l[j][1]) =>
            CategoryOf(l[i][1]) <= CategoryOf(l[j][1])

\* C25 as stated: normalize_headers(C) puts the known headers in the order
\* general, request, response, entity, and any two entries of the same
\* category keep the relative order they had before, whatever their names.
C25_StableByCategory ==
    Normalized =>
        /\ KnownByCategory(collection.l)
        /\ \A i, j \in 1..Len(last.before.l) :
              LET a == last.before.l[i]
                  b == last.before.l[j]
              IN  /\ i < j
                  /\ Known(a[1]) /\ Known(b[1])
                  /\ CategoryOf(a[1]) = CategoryOf(b[1])
                  => Place(collection.l, a[2]) < Place(collection.l, b[2])

\* C25 amended: normalize_headers(C) puts the known headers in the order
\* general, request, response, entity; known headers of one category stand in
\* the ascending order of their canonical names, and only entries of the same
\* canonical name keep the relative order they had before. The list entity,
\* general, request, response, general becomes general, general, request,
\* response, entity with the two general headers ordered by name.
C25_ByCategoryThenName ==
    Normalized =>
        /\ KnownByCategory(collection.l)
        /\ \A i, j \in 1..Len(collection.l) :
              LET a == collection.l[i]
                  b == collection.l[j]
              IN  /\ i < j
                  /\ Known(a[1]) /\ Known(b[1])
                  /\ CategoryOf(a[1]) = CategoryOf(b[1])
                  => ~str_lt(b[1], a[1])
        /\ \A i, j \in 1..Len(last.before.l) :
              LET a == last.before.l[i]
                  b == last.before.l[j]
              IN  /\ i < j
                  /\ Known(a[1]) /\ Known(b[1])
                  /\ CanonicalName(a[1]) = CanonicalName(b[1])
                  => Place(collection.l, a[2]) < Place(collection.l, b[2])
        /\ last.before.l = MixedList =>
              [i \in 1..Len(collection.l) |-> collection.l[i][1]] =
                  << <<"D","a","t","e">>, <<"V","i","a">>, <<"H","o","s","t">>,
                     <<"E","T","a","g">>, <<"A","l","l","o","w">> >>

\* the list entity, general, request, response, general was normalized
C25_Witness ==
    /\ Normalized
    /\ last.before.l = MixedList
    /\ collection.l # MixedList

\* the field-names of a list that the registry does not know
Unknown(l) == {i \in 1..Len(l) : ~Known(l[i][1])}

\* C26: normalize_headers(C, strict=False) keeps every unknown header, with
\* its name in dash-separated title case, behind every known header, the
\* known entity headers included; normalize_headers(C, strict=True) raises
\* when C holds an unknown header.
C26_UnknownLast ==
    last.op = "normalize_headers" =>
        IF last.args[1].b
        THEN Unknown(last.before.l) # {} => ret.exc = "AssertionError"
        ELSE /\ ret.exc = NoExc
             /\ \A i \in Unknown(last.before.l) :
                  \E k \in 1..Len(collection.l) :
                      /\ collection.l[k] =
                            <<TitleCase(last.before.l[i][1]), last.before.l[i][2]>>
                      /\ \A m \in 1..Len(collection.l) :
                            Known(collection.l[m][1]) => m < k

\* the number of entries of a list equal to e
Count(l, e) == Cardinality({i \in 1..Len(l) : l[i] = e})

\* the entries of a list under their canonical names
Renamed(l) == [i \in 1..Len(l) |-> <<CanonicalName(l[i][1]), l[i][2]>>]

\* C30: a normalize_headers(C) that returns only renames and reorders: C is
\* as long as before and holds the same (canonical name, value) pairs as
\* often as before, entries of the same canonical name keep their relative
\* order, and normalizing once more changes nothing.
C30_RenamesAndReorders ==
    Normalized =>
        /\ Len(collection.l) = Len(last.before.l)
        /\ \A i \in 1..Len(collection.l) :
              /\ Count(collection.l, collection.l[i]) =
                    Count(Renamed(last.before.l), collection.l[i])
              /\ Count(collection.l, Renamed(last.before.l)[i]) =
                    Count(Renamed(last.before.l), Renamed(last.before.l)[i])
        /\ \A i, j \in 1..Len(last.before.l) :
              /\ i < j
              /\ CanonicalName(last.before.l[i][1]) = CanonicalName(last.before.l[j][1])
              => Place(collection.l, last.before.l[i][2])
                    < Place(collection.l, last.before.l[j][2])
        /\ normalize_headers(headers, collection, last.args[1].b) =
              Outcome(Return(None), collection)
        /\ \A strict \in BOOLEAN :
              normalize_headers(headers, collection, strict).collection = collection

\* a list with two entries of one header around an entry of another was
\* normalized, and the entries moved
C30_Witness ==
    /\ Normalized
    /\ collection # last.before
    /\ \E i, j \in 1..Len(last.before.l) :
          /\ i + 1 < j
          /\ last.before.l[i][1] = last.before.l[j][1]
          /\ last.before.l[i + 1][1] # last.before.l[i][1]

\* Date.compose(time=T) returned and Date.time is called on the value composed
ParsesComposed ==
    /\ last.op = "compose"
    /\ last.self = Date_
    /\ "time" \in DOMAIN last.kwargs
    /\ ret.exc = NoExc
    /\ last'.op = "time"
    /\ last'.args = <<Str(ret.value.strs[1])>>

\* C23: for every time T in whole seconds since the epoch, T = 0 included,
\* DateHeader.time(DateHeader.compose(time=T)[0]) returns T.
C23_DateRoundTrip ==
    [][ParsesComposed => ret' = Return(IntVal(last.kwargs.time.n))]_vars

\* the value If-Modified-Since reads from the container is the date of t
Sent(t) == ReadOf(Self, collection) = Return(Str(formatdate(t)))

\* the most recent call was IfModifiedSince.time(C)
TimeRead ==
    /\ last.op = "time"
    /\ last.self = IfModifiedSince_
    /\ last.args = <<collection>>

\* C24: IfModifiedSince.time(C) raises exactly when the value held for the
\* header is the date of a time after the current time of the server; the
\* date of the current or of an earlier time is returned in seconds since the
\* epoch, and None is returned when C holds no value for the header.
C24_FutureDateRefused ==
    TimeRead =>
        /\ \A t \in SentTimes :
              Sent(t) => IF t > clock THEN ret = Raise("HTTPBadRequest")
                         ELSE ret = Return(IntVal(t))
        /\ ReadOf(Self, collection) = Return(None) => ret = Return(None)
        /\ ret.exc = "HTTPBadRequest" /\ (\E t \in SentTimes : Sent(t)) =>
              \E t \in SentTimes : Sent(t) /\ t > clock

\* a date one second ahead of the server was refused
C24_Witness ==
    /\ TimeRead
    /\ Sent(clock + 1)
    /\ ret = Raise("HTTPBadRequest")

\* the most recent call was ContentDisposition.apply(C, ...)
AppliedDisposition == last.op = "apply" /\ last.self = ContentDisposition_

\* the call named a filename
FilenameGiven == "filename" \in DOMAIN last.kwargs /\ truthy(last.kwargs.filename)

\* what a container holds for Content-Type: the entries of a list in their
\* order, the two keys of an environ
TypeEntries(coll) ==
    IF coll.t = "list"
    THEN LET OfType(e) == lower(e[1]) = ContentType.headers_name IN SelectSeq(coll.l, OfType)
    ELSE [k \in DOMAIN coll.d \cap {ContentType.environ_name, <<"C","O","N","T","E","N","T","_","T","Y","P","E">>} |-> coll.d[k]]

\* the container holds nothing for Content-Type
HoldsNoType(coll) ==
    IF coll.t = "list" THEN TypeEntries(coll) = <<>> ELSE DOMAIN TypeEntries(coll) = {}

\* the mimetype of the extension of the filename of the call is a specific one
GuessedSpecific ==
    /\ guess_type(last.kwargs.filename.s) # None
    /\ guess_type(last.kwargs.filename.s) # Str(UNKNOWN)

\* C21: ContentDisposition.apply(C, filename=f) on a container C that holds no
\* Content-Type sets Content-Disposition to attachment; filename="<basename
\* of f>", sets Content-Type to the mimetype of the extension of f and
\* returns that mimetype.
C21_ApplyGuessesType ==
    /\ AppliedDisposition
    /\ DOMAIN last.kwargs = {"filename"}
    /\ FilenameGiven
    /\ GuessedSpecific
    /\ HoldsNoType(last.before)
    => /\ ret = Return(guess_type(last.kwargs.filename.s))
       /\ ReadOf(ContentType, collection) = ret
       /\ ReadOf(Self, collection) =
            Return(Str(<<"a","t","t","a","c","h","m","e","n","t",";"," ","f","i","l","e","n","a","m","e","=","\"">> \o basename(last.kwargs.filename.s) \o <<"\"">>))

AppliedUncomposable ==
    /\ last.op = "apply"
    /\ last.self \in {CacheControl_, ContentDisposition_}
    /\ compose(Self, last.kwargs).exc # NoExc

\* C29: CacheControl.apply and ContentDisposition.apply compose before they
\* write: when the keyword arguments do not compose (flags that exclude one
\* another, an extension that is not registered, a quote in the filename) the
\* call raises what compose raises and C is as it was before the call, the
\* header, Expires and Content-Type included.
C29_ComposeBeforeWrite ==
    AppliedUncomposable =>
        /\ ret = compose(Self, last.kwargs)
        /\ collection = last.before

\* ContentDisposition.apply was refused for a quote in a filename whose
\* extension has a mimetype, on a list that holds a generic Content-Type
C29_Witness ==
    /\ AppliedUncomposable
    /\ last.self = ContentDisposition_
    /\ DOMAIN last.kwargs = {"filename"}
    /\ guess_type(last.kwargs.filename.s) = Str(<<"a","p","p","l","i","c","a","t","i","o","n","/","p","d","f">>)
    /\ ReadOf(ContentType, last.before) = Return(Str(UNKNOWN))

\* the calls of a request: reading, writing, looking up, listing, normalizing
Calls ==
    {"call", "update", "delete", "apply", "tuples", "get_header", "list_headers",
     "normalize_headers"}

\* the step is a call whose outcome is the one the call has on the registry
\* as the module loaded it and on the container of the request alone
AsAlone ==
    CASE last'.op = "call" ->
            ret' = Call(Loaded[last'.self], last'.args, last'.kwargs)
      [] last'.op = "tuples" ->
            ret' = tuples(Loaded[last'.self], last'.args, last'.kwargs)
      [] last'.op = "update" ->
            Outcome(ret', collection') =
                update(Loaded[last'.self], collection, last'.args, last'.kwargs)
      [] last'.op = "delete" ->
            Outcome(ret', collection') = HTTPHeader_delete(Loaded[last'.self], collection)
      [] last'.op = "apply" ->
            Outcome(ret', collection') =
                apply(Loaded[last'.self], collection, last'.kwargs)
      [] last'.op = "get_header" ->
            ret' = get_header(Loaded, last'.self, last'.args[1])
      [] last'.op = "list_headers" ->
            ret' = list_headers(Loaded, TRUE, TRUE, TRUE, TRUE)
      [] last'.op = "normalize_headers" ->
            Outcome(ret', collection') =
                normalize_headers(Loaded, collection, last'.args[1].b)

\* C27: once the module is loaded no call of a request (read, update, delete,
\* apply, tuples, get_header, list_headers, normalize_headers) adds, removes
\* or changes an entry of the registry or a field of an accessor, or touches
\* the container of the other request; however the calls of two requests
\* interleave, each call has the outcome it has when its request runs alone.
C27_RegistryReadOnly ==
    [][last'.op \in Calls =>
            /\ registered' = registered
            /\ nextId' = nextId
            /\ headers' = Loaded
            /\ parked' = parked
            /\ AsAlone]_vars

\* a request updated its list after the other request had filled a
\* different one
C27_Witness ==
    /\ last.op = "update"
    /\ collection.t = "list"
    /\ parked.t = "list"
    /\ Len(parked.l) = 2
    /\ Len(collection.l) = 1

====
